---------------------------- MODULE Spec2Model ----------------------------
(***************************************************************************)
(* A model of the node-paging, caching and resource-access core of the i3s *)
(* scene-layer reader: the archive backend (slpk.rs), the node graph       *)
(* (node.rs) and the mesh decoder (decode.rs).                             *)
(*                                                                         *)
(* Byte payloads are modelled by their framing: a blob is a record         *)
(* [enc, body]; enc says whether the bytes are a gzip stream, body what    *)
(* the stream holds.  Entry names and cache keys are the strings the code  *)
(* formats.                                                                *)
(***************************************************************************)
EXTENDS Integers, Sequences, FiniteSets, TLC

VARIABLES
    scene,      \* the open scene: its definition and the archive's entries
    build,      \* "debug" | "release": whether integer overflow panics or wraps
    nodes,      \* NodeArray.nodes: node index -> Node
    cache,      \* SceneLayerPackage.cache: page key -> NodePage
    fetches,    \* observer: entry name -> number of Accessor::get calls for it
    failed,     \* observer: entry name -> number of get_node_page calls that failed for it
    faults,     \* number of transient read failures the archive has produced
    first,      \* observer: node index -> the node NodeArray::get returned for it first
    last,       \* observer: the caller's last call and what it returned
    ops,        \* number of caller operations made (bounds the run)
    panicked,   \* a call has panicked: the caller's thread unwound
    trav,       \* traverse: "idle" | "running" | "done" | "stopped" | "panicked"
    stack,      \* traverse: the work list, last element popped first
    visited,    \* traverse: the visitor calls of the current pass, in order
    pass,       \* number of traverse calls started
    stopAt,     \* the visitor of the current pass returns false at its stopAt-th call (0: never)
    end1,       \* observer: how the first pass ended ("" while it has not)
    fetches1,   \* observer: fetches when the first pass returned
    failed1,    \* observer: failed when the first pass returned
    pc,         \* thread -> where it is in its call ("idle" between calls)
    call,       \* thread -> the call it is making: [op, index, uri, comp]
    buf,        \* thread -> the bytes or page it has in hand
    ret,        \* thread -> what its last call returned
    mesh,       \* thread -> the cache slots of its MeshGeometry and MeshMaterial
    calls,      \* number of calls the threads have started
    holders,    \* the threads holding the archive lock
    inserts     \* observer: page key -> number of inserts into the page cache

graphVars == <<nodes, cache, fetches, failed, faults>>
travVars  == <<trav, stack, visited, pass, stopAt, end1, fetches1, failed1>>
vars == <<scene, build, nodes, cache, fetches, failed, faults, first, last, ops, panicked,
          trav, stack, visited, pass, stopAt, end1, fetches1, failed1,
          pc, call, buf, ret, mesh, calls, holders, inserts>>
thrVars == <<pc, call, buf, ret, mesh, calls, holders, inserts>>

----------------------------------------------------------------------------
(* Bounds of the model *)

\* caller operations in one run of the navigation specification
MaxOps == 4
\* transient archive read failures in one run
MaxFaults == 1
\* the transient failure of a call hits one of its first MaxFailAt archive reads
MaxFailAt == 3
\* the caller resolves indices 0..MaxIndex
MaxIndex == 6
\* the visitor may return false at its 1st..MaxStop-th call
MaxStop == 3
\* traverse calls in one run
MaxPasses == 2
\* visitor calls modelled in one pass
MaxVisits == 300
\* depth of the deepest node of the chain scene
ChainDepth == 256
\* threads sharing one archive-backed scene
NumThreads == 2
\* calls the threads make in one run
MaxCalls == 2
\* largest resource id of a URI request
MaxResource == 2
\* largest texture-set definition id of a material
MaxDefinition == 2
\* calls of next on one iterator
MaxNext == 8
\* largest node index and page size the index functions are applied to
MaxNodeIndex == 40
MaxPerPage == 8

----------------------------------------------------------------------------
(* Values *)

\* Option<usize>::None
NONE == -1

\* the level counter of traverse is a u8
LevelMod == 256

Ok(v)   == [ok |-> TRUE,  panic |-> FALSE, val |-> v,    err |-> ""]
Err(e)  == [ok |-> FALSE, panic |-> FALSE, val |-> <<>>, err |-> e]
Panic(e) == [ok |-> FALSE, panic |-> TRUE, val |-> <<>>, err |-> e]

BagCount(b, k) == IF k \in DOMAIN b THEN b[k] ELSE 0
BagAdd(b, k) == [x \in DOMAIN b \cup {k} |-> IF x = k THEN BagCount(b, k) + 1 ELSE b[x]]
EmptyBag == [x \in {} |-> 0]
EmptyMap == [x \in {} |-> 0]

Range(s) == {s[k] : k \in DOMAIN s}

\* struct Node: the fields navigation reads
Node(i, par, ch) == [index |-> i, parent_index |-> par, children |-> ch]

----------------------------------------------------------------------------
(* Pure helpers of node.rs *)

\* a page index that rounds up
get_node_page_index_up(node_index, nodes_per_page) ==
    (node_index + nodes_per_page - 1) \div nodes_per_page

get_node_page_index(node_index, nodes_per_page) == node_index \div nodes_per_page

\* an offset that is always the first of the page
get_node_index_in_node_page_first(node_index, nodes_per_page) == 0 * node_index

get_node_index_in_node_page(node_index, nodes_per_page) == node_index % nodes_per_page

is_root(node) == node.parent_index = NONE

is_leaf(node) == node.children = <<>>

----------------------------------------------------------------------------
(* Decoding steps *)

\* flate2 GzDecoder read to the end: succeeds on a gzip stream only
GzDecode(blob) ==
    IF blob.enc = "gzip" THEN Ok(blob.body) ELSE Err("Failed to decompress")

\* serde_json::from_slice::<NodePage>: succeeds on a JSON node page only
ParseNodePage(body) ==
    IF body.kind = "page" THEN Ok([nodes |-> body.nodes])
    ELSE Err("Could not parse Node Page")

\* the entry name of a node page in the archive
NodePagePath(index) == "nodepages/" \o ToString(index) \o ".json.gz"

\* the page-cache key of a node page
NodePageKey(index) == ToString(index)
----------------------------------------------------------------------------
(* The archive backend, for one caller.                                    *)
(* A world w is the state one call reads and writes:                       *)
(*   [nodes, cache, fetches, failed, n, failAt, fired]                     *)
(* n counts the archive reads of the running call, and the failAt-th of    *)
(* them fails with a transient read error (0: none does).                  *)

World(failAt) ==
    [nodes |-> nodes, cache |-> cache, fetches |-> fetches, failed |-> failed,
     n |-> 0, failAt |-> failAt, fired |-> FALSE]

\* by_name and read_to_end of Accessor::get, the call counted in w
ArchiveRead(w, uri) ==
    IF uri \notin DOMAIN scene.archive
    THEN [w |-> w, r |-> Err("Failed to find file in archive")]
    ELSE IF w.n = w.failAt
    THEN [w |-> [w EXCEPT !.fired = TRUE], r |-> Err("Failed to read file from archive")]
    ELSE [w |-> w, r |-> Ok(scene.archive[uri])]

\* Accessor::get of SceneLayerPackage
ArchiveGet(w, uri) ==
    ArchiveRead([w EXCEPT !.n = @ + 1, !.fetches = BagAdd(@, uri)], uri)

\* a get_node_page call that returns an error
PageFailure(w, index, e) ==
    [w |-> [w EXCEPT !.failed = BagAdd(@, NodePagePath(index))], r |-> Err(e)]

\* a page cache that never holds a key
PageCachedNever(c, key) == FALSE

\* the cache test of get_node_page
PageCached(c, key) == key \in DOMAIN c

\* a store that drops the page
InsertPageNowhere(c, key, page) == c

\* a store that keeps only the first node of the page
InsertPagePartial(c, key, page) ==
    [k \in DOMAIN c \cup {key} |->
        IF k = key THEN [nodes |-> SubSeq(page.nodes, 1, 1)] ELSE c[k]]

\* what get_node_page stores in the page cache
InsertPage(c, key, page) == [k \in DOMAIN c \cup {key} |-> IF k = key THEN page ELSE c[k]]

\* get_node_page, the parsed page p in hand: insert and return it
StorePage(w, p, index) ==
    IF ~p.ok THEN PageFailure(w, index, p.err)
    ELSE [w |-> [w EXCEPT !.cache = InsertPage(@, NodePageKey(index), p.val)],
          r |-> Ok(p.val)]

\* a get_node_page that reports bytes it cannot decompress as a parse failure
DecompressedPageAsParse(w, d, index) ==
    IF ~d.ok THEN PageFailure(w, index, "Could not parse Node Page")
    ELSE StorePage(w, ParseNodePage(d.val), index)

\* get_node_page, the decompressed bytes d in hand: parse them
DecompressedPage(w, d, index) ==
    IF ~d.ok THEN PageFailure(w, index, d.err)
    ELSE StorePage(w, ParseNodePage(d.val), index)

\* get_node_page, the result g of the archive read in hand: decompress it
FetchedPage(g, index) ==
    IF ~g.r.ok THEN PageFailure(g.w, index, g.r.err)
    ELSE DecompressedPage(g.w, GzDecode(g.r.val), index)

\* SceneLayerPackage::get_node_page
GetNodePage(w, index) ==
    IF PageCached(w.cache, NodePageKey(index))
    THEN [w |-> w, r |-> Ok(w.cache[NodePageKey(index)])]
    ELSE FetchedPage(ArchiveGet(w, NodePagePath(index)), index)

\* a pick that takes the last node of the page for an offset past its end
PickNodeClamped(pg, node_index) ==
    IF ~pg.r.ok THEN pg
    ELSE IF Len(pg.r.val.nodes) = 0
    THEN [w |-> pg.w, r |-> Err("Index is greater than nodes in the node page")]
    ELSE IF node_index >= Len(pg.r.val.nodes)
    THEN [w |-> pg.w, r |-> Ok(pg.r.val.nodes[Len(pg.r.val.nodes)])]
    ELSE [w |-> pg.w, r |-> Ok(pg.r.val.nodes[node_index + 1])]

\* get_node, the page in hand: bounds test and clone of the node
PickNode(pg, node_index) ==
    IF ~pg.r.ok THEN pg
    ELSE IF node_index >= Len(pg.r.val.nodes)
    THEN [w |-> pg.w, r |-> Err("Index is greater than nodes in the node page")]
    ELSE [w |-> pg.w, r |-> Ok(pg.r.val.nodes[node_index + 1])]

\* Accessor::get_node of SceneLayerPackage
GetNode(w, index) ==
    IF ~scene.def.node_pages.present
    THEN [w |-> w, r |-> Err("NodePages definition not found in scene definition.")]
    ELSE IF scene.def.node_pages.nodes_per_page = 0
    THEN [w |-> w, r |-> Panic("attempt to divide by zero")]
    ELSE PickNode(GetNodePage(w, get_node_page_index(index,
                                     scene.def.node_pages.nodes_per_page)),
                  get_node_index_in_node_page(index, scene.def.node_pages.nodes_per_page))

\* the cache test of NodeArray::get
NodeCached(w, index) == index \in DOMAIN w.nodes

\* a node cache that holds the node resolved last and no other
InsertNodeEvicting(g, index) ==
    IF g.r.panic THEN g
    ELSE IF ~g.r.ok THEN [w |-> g.w, r |-> Err("None")]
    ELSE [w |-> [g.w EXCEPT !.nodes = [k \in {index} |-> g.r.val]],
          r |-> Ok(g.r.val)]

\* NodeArray::get, the result g of get_node in hand: an error becomes None,
\* a node is inserted into the node cache
InsertNode(g, index) ==
    IF g.r.panic THEN g
    ELSE IF ~g.r.ok THEN [w |-> g.w, r |-> Err("None")]
    ELSE [w |-> [g.w EXCEPT !.nodes =
                    [k \in DOMAIN g.w.nodes \cup {index} |->
                        IF k = index THEN g.r.val ELSE g.w.nodes[k]]],
          r |-> Ok(g.r.val)]

\* NodeArray::get: r.ok is Some(node)
NodeArrayGet(w, index) ==
    IF NodeCached(w, index) THEN [w |-> w, r |-> Ok(w.nodes[index])]
    ELSE InsertNode(GetNode(w, index), index)

\* NodeArray::len
NodeArrayLen(w) == Cardinality(DOMAIN w.nodes)

\* a root index with the two cases exchanged
RootIndexExchanged ==
    IF scene.def.node_pages.present THEN 0 ELSE scene.def.node_pages.root_index

\* NodeArray::root_index
RootIndex ==
    IF scene.def.node_pages.present THEN scene.def.node_pages.root_index ELSE 0

\* NodeArray::root
NodeArrayRoot(w) == NodeArrayGet(w, RootIndex)

\* Node::get_children: the listed children that resolve, in listed order.
\* r.val is the sequence of the nodes returned.
RECURSIVE ChildrenFrom(_, _, _, _)
RECURSIVE ChildResolved(_, _, _, _)
ChildrenFrom(w, children, k, acc) ==
    IF k > Len(children) THEN [w |-> w, r |-> Ok(acc)]
    ELSE ChildResolved(NodeArrayGet(w, children[k]), children, k, acc)

\* a collect that ends at the first child that does not resolve
ChildResolvedUntilMissing(g, children, k, acc) ==
    IF g.r.panic THEN g
    ELSE IF ~g.r.ok THEN [w |-> g.w, r |-> Ok(acc)]
    ELSE ChildrenFrom(g.w, children, k + 1, Append(acc, g.r.val))

\* a collect that puts each resolved child in front of the earlier ones
ChildResolvedInFront(g, children, k, acc) ==
    IF g.r.panic THEN g
    ELSE ChildrenFrom(g.w, children, k + 1, IF g.r.ok THEN <<g.r.val>> \o acc ELSE acc)

\* filter_map of get_children: a child that does not resolve is left out
ChildResolved(g, children, k, acc) ==
    IF g.r.panic THEN g
    ELSE ChildrenFrom(g.w, children, k + 1, IF g.r.ok THEN Append(acc, g.r.val) ELSE acc)

GetChildren(w, self) == ChildrenFrom(w, self.children, 1, <<>>)

\* the validity test of get_parent
ParentIndexValid(w, parent_index) == parent_index < NodeArrayLen(w)

\* Node::get_parent: r.ok is Some(parent)
GetParent(w, self) ==
    IF is_root(self) THEN [w |-> w, r |-> Err("None")]
    ELSE IF ~ParentIndexValid(w, self.parent_index) THEN [w |-> w, r |-> Err("None")]
    ELSE NodeArrayGet(w, self.parent_index)

\* the filter of get_siblings
NotSelf(c, self) ==
    IF c.r.panic THEN c
    ELSE [w |-> c.w,
          r |-> Ok(SelectSeq(c.r.val, LAMBDA sibling : sibling.index # self.index))]

\* get_siblings, the result p of get_parent in hand
SiblingsOf(p, self) ==
    IF p.r.panic THEN p
    ELSE IF ~p.r.ok THEN [w |-> p.w, r |-> Ok(<<>>)]
    ELSE NotSelf(GetChildren(p.w, p.r.val), self)

\* Node::get_siblings
GetSiblings(w, self) == SiblingsOf(GetParent(w, self), self)

----------------------------------------------------------------------------
(* Scenes.  A scene is [def, archive]: the SceneDefinition read at open    *)
(* and the archive's entries by name.                                      *)

NodePagesDef(npp, root) == [present |-> TRUE, nodes_per_page |-> npp, root_index |-> root]

PageBlob(enc, kind, ns) == [enc |-> enc, body |-> [kind |-> kind, nodes |-> ns]]

\* the nodes of page p when the scene's nodes are shape[1..Len(shape)]
\* (node i is shape[i + 1]) and a page holds npp nodes
PageNodes(shape, npp, p) ==
    LET start == p * npp
        len == IF Len(shape) - start >= npp THEN npp ELSE Len(shape) - start
    IN  [k \in 1..len |-> shape[start + k]]

NumPages(shape, npp) == (Len(shape) + npp - 1) \div npp

\* the archive of a scene whose page 1 has the given defect
\* ("none", "missing", "badgzip", "badjson")
MkArchive(shape, npp, defect) ==
    LET pages == {p \in 0..(NumPages(shape, npp) - 1) : ~(defect = "missing" /\ p = 1)}
        PageOf(path) == CHOOSE p \in pages : NodePagePath(p) = path
    IN  [path \in {NodePagePath(p) : p \in pages} |->
            LET p == PageOf(path) IN
            PageBlob(IF defect = "badgzip" /\ p = 1 THEN "raw" ELSE "gzip",
                     IF defect = "badjson" /\ p = 1 THEN "junk" ELSE "page",
                     IF defect = "badjson" /\ p = 1 THEN <<>> ELSE PageNodes(shape, npp, p))]

\* Option<Vec<_>>::None and Some(defs) of the scene definition's tables
NoTable == [present |-> FALSE, defs |-> <<>>]
Table(defs) == [present |-> TRUE, defs |-> defs]

MkScene(shape, npp, defect) ==
    [def |-> [node_pages |-> NodePagesDef(npp, 0),
              geometry_definitions |-> NoTable,
              texture_set_definitions |-> NoTable],
     archive |-> MkArchive(shape, npp, defect)]

\* a tree of three levels
TreeShape ==
    << Node(0, NONE, <<1, 2>>), Node(1, 0, <<3, 4>>), Node(2, 0, <<>>),
       Node(3, 1, <<>>), Node(4, 1, <<>>) >>

\* nodes 1 and 2 both list node 3
SharedChildShape ==
    << Node(0, NONE, <<1, 2>>), Node(1, 0, <<3>>), Node(2, 0, <<3, 4>>),
       Node(3, 1, <<>>), Node(4, 2, <<>>) >>

\* node 0 lists index 5 and node 1 lists index 6, which no page holds
DanglingShape ==
    << Node(0, NONE, <<1, 5, 2>>), Node(1, 0, <<6, 3>>), Node(2, 0, <<4>>),
       Node(3, 1, <<>>), Node(4, 2, <<>>) >>

Shapes == {TreeShape, SharedChildShape, DanglingShape}
Defects == {"none", "missing", "badgzip", "badjson"}
NppChoices == {2, 3}

GraphScenes == {MkScene(sh, npp, d) : sh \in Shapes, npp \in NppChoices, d \in Defects}

----------------------------------------------------------------------------
(* The caller's operations on one NodeArray *)

FailAts == IF faults < MaxFaults THEN 0..MaxFailAt ELSE {0}

\* the state a call leaves behind
Commit(o) ==
    /\ o.w.fired = (o.w.failAt > 0)
    /\ nodes' = o.w.nodes
    /\ cache' = o.w.cache
    /\ fetches' = o.w.fetches
    /\ failed' = o.w.failed
    /\ faults' = IF o.w.fired THEN faults + 1 ELSE faults
    /\ panicked' = o.r.panic

Indices(ns) == [k \in DOMAIN ns |-> ns[k].index]

\* the nodes a call returned, as a sequence
ResultSeq(q, o) ==
    IF ~o.r.ok THEN <<>>
    ELSE IF q \in {"get", "root", "parent"} THEN <<o.r.val>>
    ELSE o.r.val

\* the caller's record of a call: the query, its argument, the nodes returned,
\* what the caller is told when none is, whether a transient read failure hit
\* it, and NodeArray::len before it
Record(q, n, o) ==
    /\ last' = [q |-> q, n |-> n,
                r |-> ResultSeq(q, o),
                err |-> o.r.err,
                fault |-> o.w.fired,
                len |-> NodeArrayLen(World(0))]
    /\ first' = IF q \in {"get", "root"} /\ o.r.ok /\ n \notin DOMAIN first
                THEN [k \in DOMAIN first \cup {n} |-> IF k = n THEN o.r.val ELSE first[k]]
                ELSE first

NoCall == [q |-> "none", n |-> 0, r |-> <<>>, err |-> "", fault |-> FALSE, len |-> 0]

\* a call of the caller returned o
Returned(q, n, o) == Commit(o) /\ Record(q, n, o)

CallerReady == ~panicked /\ ops < MaxOps /\ trav = "idle"

CallGet(i, f) ==
    /\ CallerReady
    /\ Returned("get", i, NodeArrayGet(World(f), i))
    /\ ops' = ops + 1
    /\ UNCHANGED <<scene, build, thrVars, travVars>>

CallRoot(f) ==
    /\ CallerReady
    /\ Returned("root", RootIndex, NodeArrayRoot(World(f)))
    /\ ops' = ops + 1
    /\ UNCHANGED <<scene, build, thrVars, travVars>>

CallGetParent(n, f) ==
    /\ CallerReady
    /\ n \in DOMAIN nodes
    /\ Returned("parent", n, GetParent(World(f), nodes[n]))
    /\ ops' = ops + 1
    /\ UNCHANGED <<scene, build, thrVars, travVars>>

CallGetChildren(n, f) ==
    /\ CallerReady
    /\ n \in DOMAIN nodes
    /\ Returned("children", n, GetChildren(World(f), nodes[n]))
    /\ ops' = ops + 1
    /\ UNCHANGED <<scene, build, thrVars, travVars>>

CallGetSiblings(n, f) ==
    /\ CallerReady
    /\ n \in DOMAIN nodes
    /\ Returned("siblings", n, GetSiblings(World(f), nodes[n]))
    /\ ops' = ops + 1
    /\ UNCHANGED <<scene, build, thrVars, travVars>>

Threads == 1..NumThreads

NoCallT == [op |-> "none", index |-> 0, uri |-> "", comp |-> "Uncompressed"]
NoBuf == <<>>
NoData == [present |-> FALSE, data |-> <<>>]
NoRet == [ok |-> FALSE, panic |-> FALSE, val |-> <<>>, err |-> "no call"]

\* a mesh whose material names the texture-set definition given, its slots empty
MeshOf(definition) ==
    [geometry |-> [resource |-> 0, definition |-> 0, cache |-> NoData],
     material |-> [resource |-> 0, definition |-> definition, cache |-> NoData]]

InitThreadState ==
    /\ pc = [t \in Threads |-> "idle"]
    /\ call = [t \in Threads |-> NoCallT]
    /\ buf = [t \in Threads |-> NoBuf]
    /\ ret = [t \in Threads |-> NoRet]
    /\ calls = 0
    /\ holders = {}
    /\ inserts = EmptyBag

InitThreads ==
    /\ InitThreadState
    /\ mesh = [t \in Threads |-> MeshOf(0)]

InitCallerState ==
    /\ nodes = EmptyMap
    /\ cache = EmptyMap
    /\ fetches = EmptyBag
    /\ failed = EmptyBag
    /\ faults = 0
    /\ first = EmptyMap
    /\ last = NoCall
    /\ ops = 0
    /\ panicked = FALSE
    /\ trav = "idle"
    /\ stack = <<>>
    /\ visited = <<>>
    /\ pass = 0
    /\ stopAt = 0
    /\ end1 = ""
    /\ fetches1 = EmptyBag
    /\ failed1 = EmptyBag

InitCaller == InitThreads /\ InitCallerState

InitGraph == scene \in GraphScenes /\ build = "release" /\ InitCaller

NextGraph ==
    \/ \E i \in 0..MaxIndex, f \in FailAts : CallGet(i, f)
    \/ \E f \in FailAts : CallRoot(f)
    \/ \E n \in 0..MaxIndex, f \in FailAts : CallGetParent(n, f)
    \/ \E n \in 0..MaxIndex, f \in FailAts : CallGetChildren(n, f)
    \/ \E n \in 0..MaxIndex, f \in FailAts : CallGetSiblings(n, f)

\* one caller navigating an open scene
SpecGraph == InitGraph /\ [][NextGraph]_vars
----------------------------------------------------------------------------
(* NodeArray::traverse, one action per iteration of its loop.              *)
(* A work-list entry is [some, node, level, via]: the Option<Arc<Node>>,   *)
(* the u8 level, and (observer) the position in visited of the visit that  *)
(* pushed it, 0 for the root.                                              *)

NoNode == Node(0, NONE, <<>>)

Entry(r, level, via) ==
    [some |-> r.ok, node |-> IF r.ok THEN r.val ELSE NoNode, level |-> level, via |-> via]

\* level + 1 on a u8: the sum, and whether it overflowed
NextLevel(level) == [level |-> (level + 1) % LevelMod, overflow |-> level + 1 >= LevelMod]

\* a push of the children at the end of the work list that is popped last
PushChildrenInFront(st, children, level, via) ==
    [k \in 1..Len(children) |->
        [some |-> TRUE, node |-> children[k], level |-> NextLevel(level).level, via |-> via]]
    \o st

\* a push of the children from the last returned to the first
PushChildrenLastFirst(st, children, level, via) ==
    st \o [k \in 1..Len(children) |->
              [some |-> TRUE, node |-> children[Len(children) + 1 - k],
               level |-> NextLevel(level).level, via |-> via]]

\* the entries the loop body pushes for the children returned, in their order
PushChildren(st, children, level, via) ==
    st \o [k \in 1..Len(children) |->
              [some |-> TRUE, node |-> children[k], level |-> NextLevel(level).level, via |-> via]]

\* the visitor of the current pass: what it returns at its k-th call
Callback(k) == k # stopAt

\* if !callback(&node, &level) { return; }: whether the loop goes on
ContinueAlways(cb) == TRUE
Continue(cb) == cb

\* how a pass that returns is recorded
PassEnds(how, w) ==
    /\ end1' = IF pass = 1 THEN how ELSE end1
    /\ fetches1' = IF pass = 1 THEN w.fetches ELSE fetches1
    /\ failed1' = IF pass = 1 THEN w.failed ELSE failed1

PassGoesOn == UNCHANGED <<end1, fetches1, failed1>>

\* let root = self.root(); stack.push_back((root, 0))
TraverseStart(s, f) ==
    /\ ~panicked /\ trav # "running" /\ pass < MaxPasses
    /\ pass' = pass + 1
    /\ stopAt' = s
    /\ visited' = <<>>
    /\ trav' = "running"
    /\ Commit(NodeArrayRoot(World(f)))
    /\ stack' = << Entry(NodeArrayRoot(World(f)).r, 0, 0) >>
    /\ PassGoesOn
    /\ UNCHANGED <<scene, build, thrVars, first, last, ops>>

Top == stack[Len(stack)]
Rest == SubSeq(stack, 1, Len(stack) - 1)

\* pop_back gave (None, _): continue; the loop ends when the list is empty
TraverseSkip ==
    /\ trav = "running" /\ stack # <<>> /\ ~Top.some
    /\ stack' = Rest
    /\ trav' = IF Rest = <<>> THEN "done" ELSE "running"
    /\ IF Rest = <<>> THEN PassEnds("done", World(0)) ELSE PassGoesOn
    /\ UNCHANGED <<scene, build, thrVars, graphVars, first, last, ops, panicked, visited, pass, stopAt>>

Visit(cont) ==
    Append(visited, [index |-> Top.node.index, level |-> Top.level, via |-> Top.via,
                     cont |-> cont])

\* pop_back gave a node and the visitor returned false: return
TraverseStop ==
    /\ trav = "running" /\ stack # <<>> /\ Top.some
    /\ Len(visited) < MaxVisits
    /\ ~Continue(Callback(Len(visited) + 1))
    /\ visited' = Visit(Callback(Len(visited) + 1))
    /\ stack' = <<>>
    /\ trav' = "stopped"
    /\ PassEnds("stopped", World(0))
    /\ UNCHANGED <<scene, build, thrVars, graphVars, first, last, ops, panicked, pass, stopAt>>

\* the loop body after the visitor returned true, the result c of get_children in hand
Expanded(c) ==
    IF c.r.panic \/ (Len(c.r.val) > 0 /\ NextLevel(Top.level).overflow /\ build = "debug")
    THEN /\ panicked' = TRUE
         /\ trav' = "panicked"
         /\ stack' = <<>>
         /\ PassGoesOn
    ELSE /\ panicked' = FALSE
         /\ stack' = PushChildren(Rest, c.r.val, Top.level, Len(visited) + 1)
         /\ trav' = IF stack' = <<>> THEN "done" ELSE "running"
         /\ IF stack' = <<>> THEN PassEnds("done", c.w) ELSE PassGoesOn

\* the state get_children leaves behind
Resolved(c) ==
    /\ c.w.fired = (c.w.failAt > 0)
    /\ nodes' = c.w.nodes
    /\ cache' = c.w.cache
    /\ fetches' = c.w.fetches
    /\ failed' = c.w.failed
    /\ faults' = IF c.w.fired THEN faults + 1 ELSE faults

TraverseBody(c) == Resolved(c) /\ Expanded(c)

\* pop_back gave a node and the visitor returned true: push its children
TraverseVisit(f) ==
    /\ trav = "running" /\ stack # <<>> /\ Top.some
    /\ Len(visited) < MaxVisits
    /\ Continue(Callback(Len(visited) + 1))
    /\ visited' = Visit(Callback(Len(visited) + 1))
    /\ TraverseBody(GetChildren(World(f), Top.node))
    /\ UNCHANGED <<scene, build, thrVars, first, last, ops, pass, stopAt>>

\* a chain: node i lists node i + 1, down to node ChainDepth
ChainShape ==
    [k \in 1..(ChainDepth + 1) |->
        Node(k - 1, IF k = 1 THEN NONE ELSE k - 2, IF k = ChainDepth + 1 THEN <<>> ELSE <<k>>)]

ChainNpp == 64

TraverseScenes == GraphScenes \cup {MkScene(ChainShape, ChainNpp, "none")}

InitTraverse ==
    /\ scene \in TraverseScenes
    /\ build \in {"debug", "release"}
    /\ InitCaller

NextTraverse ==
    \/ \E s \in 0..MaxStop, f \in FailAts : TraverseStart(s, f)
    \/ TraverseSkip
    \/ TraverseStop
    \/ \E f \in FailAts : TraverseVisit(f)

\* one caller walking an open scene, up to MaxPasses times
SpecTraverse == InitTraverse /\ [][NextTraverse]_vars
----------------------------------------------------------------------------
(* Reference notions the claims are stated with: what the scene's data     *)
(* says, whatever the caches hold.                                         *)

\* the node the scene holds at index i: the page of i read from the archive,
\* decompressed and parsed, and the node at i's offset in it
SceneParsed(d) == IF d.ok THEN ParseNodePage(d.val) ELSE d
ScenePage(p) ==
    IF NodePagePath(p) \notin DOMAIN scene.archive THEN Err("not found")
    ELSE SceneParsed(GzDecode(scene.archive[NodePagePath(p)]))
SceneNodeIn(pg, off) ==
    IF pg.ok /\ off < Len(pg.val.nodes) THEN Ok(pg.val.nodes[off + 1]) ELSE Err("absent")
SceneNode(i) ==
    SceneNodeIn(ScenePage(i \div scene.def.node_pages.nodes_per_page),
                i % scene.def.node_pages.nodes_per_page)

Resolves(i) == SceneNode(i).ok

\* the indices reachable from the root through children lists
RECURSIVE ReachableFrom(_)
ReachableFrom(S) ==
    IF \A i \in S : \A k \in DOMAIN SceneNode(i).val.children :
           Resolves(SceneNode(i).val.children[k]) =>
               SceneNode(i).val.children[k] \in S
    THEN S
    ELSE ReachableFrom(S \cup {c \in UNION {Range(SceneNode(i).val.children) : i \in S} :
                                  Resolves(c)})

Reachable == IF Resolves(RootIndex) THEN ReachableFrom({RootIndex}) ELSE {}

\* the number of visitor calls of the current pass made for index i
Visits(i) == Cardinality({k \in 1..Len(visited) : visited[k].index = i})

----------------------------------------------------------------------------
(* Claims about traverse *)

\* C2: a traverse whose visitor always returns true calls the visitor exactly
\* once for every index reachable from the root: none is skipped, none is
\* visited twice, also when two nodes list the same child.
C2_EachReachableOnce ==
    (trav = "done" /\ stopAt = 0 /\ faults = 0) =>
        /\ \A i \in Reachable : Visits(i) = 1
        /\ Len(visited) = Cardinality(Reachable)

\* C3: the root is visited with level 0, and every other node with a level one
\* greater than the level of the visit that pushed it.
C3_LevelIsParentLevelPlusOne ==
    \A k \in 1..Len(visited) :
        IF visited[k].via = 0 THEN visited[k].level = 0
        ELSE visited[k].level = visited[visited[k].via].level + 1

\* C4: once the visitor has returned false, traverse returns without calling
\* the visitor again: the refused visit is the last of the pass, and the work
\* list is dropped.
C4_NoVisitAfterFalse ==
    /\ \A k \in 1..(Len(visited) - 1) : visited[k].cont
    /\ (Len(visited) > 0 /\ ~visited[Len(visited)].cont) => (trav = "stopped" /\ stack = <<>>)

\* C4 witness: the visitor refused a visit while other nodes were waiting
C4_Witness ==
    /\ trav = "stopped"
    /\ Len(visited) = 2
    /\ ~visited[2].cont
    /\ Len(SceneNode(visited[1].index).val.children) >= 2

\* C5 as stated: a second traverse after a first one that ran to the end
\* issues no backend fetch at all (stated here for the runs in which no read
\* failed transiently).
C5_SecondPassNoFetch ==
    (pass = 2 /\ end1 = "done" /\ faults = 0) => fetches = fetches1

\* C5 amended: a second traverse after a first one that ran to the end never
\* fetches a page the first pass loaded, and fetches nothing at all when no
\* page load failed during the first pass.
C5_SecondPassFetchesOnlyFailedPages ==
    (pass = 2 /\ end1 = "done") =>
        /\ \A path \in DOMAIN fetches1 :
               BagCount(fetches1, path) > BagCount(failed1, path) =>
                   BagCount(fetches, path) = BagCount(fetches1, path)
        /\ failed1 = EmptyBag => fetches = fetches1

\* C5 witness: a second pass ran to the end over several nodes after a first
\* pass in which no page load failed
C5_Witness ==
    /\ pass = 2 /\ end1 = "done" /\ trav = "done"
    /\ failed1 = EmptyBag
    /\ Len(visited) >= 5
    /\ fetches1 # EmptyBag
----------------------------------------------------------------------------
(* Claims about resolving and navigating *)

PageOfIndex(i) == NodePagePath(i \div scene.def.node_pages.nodes_per_page)

\* C1 as stated: when resolving an index returns a node, the backend has been
\* asked for the bytes of the owning page at most once in total.
C1_OwningPageAskedOnce ==
    (last.q \in {"get", "root"} /\ last.r # <<>>) => BagCount(fetches, PageOfIndex(last.n)) <= 1

\* C1 amended: resolving an index again returns the node returned the first
\* time, and a page is asked for at most once more than its load has failed:
\* once it is loaded it is never asked for again, and a cached page was
\* loaded exactly once.
C1_SameNodeAndOneLoadPerPage ==
    /\ (last.q \in {"get", "root"} /\ last.r # <<>>) => last.r = <<first[last.n]>>
    /\ \A path \in DOMAIN fetches :
           BagCount(fetches, path) <= BagCount(failed, path) + 1
    /\ \A i \in 0..MaxIndex :
           NodePageKey(i) \in DOMAIN cache =>
               BagCount(fetches, NodePagePath(i)) = BagCount(failed, NodePagePath(i)) + 1

\* C1 witness: an index was resolved a second time (served by the node cache)
\* after a transient failure had made the backend be asked twice for its page
C1_Witness ==
    /\ last.q \in {"get", "root"} /\ last.r # <<>>
    /\ Cardinality(DOMAIN nodes) = last.len
    /\ BagCount(fetches, PageOfIndex(last.n)) = 2

\* the node the caller's last query was made on
LastSelf == nodes[last.n]

\* C6: for a non-root node whose parent index resolves in the scene,
\* get_parent returns that parent and the node is among the parent's
\* children that get_children returns; get_siblings never returns a node with
\* the node's own index.  In every state of the node cache.
C6_ParentChildrenSiblings ==
    /\ (last.q = "parent" /\ ~last.fault /\ ~is_root(LastSelf)
            /\ Resolves(LastSelf.parent_index)) =>
           last.r = <<SceneNode(LastSelf.parent_index).val>>
    /\ (last.q = "siblings") =>
           \A k \in DOMAIN last.r : last.r[k].index # LastSelf.index

\* the node cache and page cache of a run whose only earlier call resolved n
OnlyResolved(n) ==
    [World(0) EXCEPT
        !.nodes = [k \in {n} |-> nodes[n]],
        !.cache = [k \in {NodePageKey(n \div scene.def.node_pages.nodes_per_page)} |-> cache[k]]]

QueryAgain(q, w, self) ==
    IF q = "parent" THEN GetParent(w, self)
    ELSE IF q = "children" THEN GetChildren(w, self)
    ELSE GetSiblings(w, self)

\* C7: the result of get_parent, get_children and get_siblings for a node does
\* not depend on which nodes are in the node cache: the call returns the node
\* indices it returns in the run whose only earlier call resolved that node.
C7_QueriesIgnoreCache ==
    (last.q \in {"parent", "children", "siblings"} /\ faults = 0) =>
        Indices(last.r) = Indices(ResultSeq(last.q, QueryAgain(last.q, OnlyResolved(last.n), LastSelf)))
----------------------------------------------------------------------------
(* The URI builder of the archive backend *)

\* every geometry definition counts as compressed
geometry_has_compressed_always(def) == TRUE

\* GeometryDefinition::has_compressed
geometry_has_compressed(def) == \E k \in DOMAIN def.geometry_buffers : def.geometry_buffers[k].compressed

\* any definition with a format counts as compressed
texture_has_formats(def) == Len(def.formats) >= 1

\* TextureSetDefinition::has_compressed
texture_has_compressed(def) == Len(def.formats) = 2

\* AsRef<str> for ImageFormat: only png and jpg are implemented
ImageFormatAsRef(format) ==
    IF format \in {"png", "jpg"} THEN Ok(format) ELSE Panic("not yet implemented")

slpk_compressed_geometry_uri(resource) ==
    IF scene.def.geometry_definitions.present
    THEN IF \E k \in DOMAIN scene.def.geometry_definitions.defs :
                geometry_has_compressed(scene.def.geometry_definitions.defs[k])
         THEN Ok("nodes/" \o ToString(resource) \o "/geometries/1.bin")
         ELSE Err("No compressed geometry URI available")
    ELSE Err("Geometry definitions not found in scene definition.")

\* the slot-1 path for an uncompressed request
slpk_slot_one_geometry_uri(resource) ==
    Ok("nodes/" \o ToString(resource) \o "/geometries/1.bin")

slpk_uncompressed_geometry_uri(resource) ==
    Ok("nodes/" \o ToString(resource) \o "/geometries/0.bin")

slpk_create_geometry_uri(resource, compression) ==
    IF compression = "Compressed" THEN slpk_compressed_geometry_uri(resource)
    ELSE slpk_uncompressed_geometry_uri(resource)

slpk_compressed_texture_uri(resource, name, fmt) ==
    IF scene.def.texture_set_definitions.present
    THEN IF \E k \in DOMAIN scene.def.texture_set_definitions.defs :
                texture_has_compressed(scene.def.texture_set_definitions.defs[k])
         THEN Ok("nodes/" \o ToString(resource) \o "/textures/" \o name \o ".bin." \o fmt \o ".gz")
         ELSE Err("No compressed texture URI available")
    ELSE Err("Texture definitions not found in scene definition.")

slpk_uncompressed_texture_uri(resource, name, fmt) ==
    IF ~scene.def.texture_set_definitions.present
    THEN Err("Texture definitions not found in scene definition.")
    ELSE Ok("nodes/" \o ToString(resource) \o "/textures/" \o name \o ".bin." \o fmt)

slpk_create_texture_uri(resource, name, fmt, compression) ==
    IF compression = "Compressed" THEN slpk_compressed_texture_uri(resource, name, fmt)
    ELSE slpk_uncompressed_texture_uri(resource, name, fmt)

\* decode_material up to the URI: the texture-set definition of the material,
\* the format slot of the compression, the URI
MaterialUriOfFormat(material, fmt, asref, compression) ==
    IF asref.panic THEN asref
    ELSE slpk_create_texture_uri(material.resource, fmt.name, asref.val, compression)

MaterialUriOfDef(material, texture_def, slot, compression) ==
    IF slot > Len(texture_def.formats) THEN Panic("index out of bounds")
    ELSE MaterialUriOfFormat(material, texture_def.formats[slot],
                             ImageFormatAsRef(texture_def.formats[slot].format), compression)

MaterialUri(material, compression) ==
    IF ~scene.def.texture_set_definitions.present
    THEN Err("Texture set definitions not found in scene definition.")
    ELSE IF material.definition + 1 > Len(scene.def.texture_set_definitions.defs)
    THEN Panic("index out of bounds")
    ELSE MaterialUriOfDef(material,
                          scene.def.texture_set_definitions.defs[material.definition + 1],
                          IF compression = "Compressed" THEN 2 ELSE 1, compression)

----------------------------------------------------------------------------
(* Threads sharing one archive-backed scene.  A thread makes one call at a *)
(* time; a call is a sequence of steps, and the steps of different threads *)
(* interleave.  The page cache is a concurrent map: contains_key, insert   *)
(* and get are each one step.                                              *)

\* self.archive.write(): granted when no thread holds the lock
CanLockShared(h) == TRUE
CanLock(h) == h = {}

\* the write guard of get is dropped when get returns
UnlockLate(h, t) == h
Unlock(h, t) == h \ {t}

\* the call of thread t returns r
Return(t, r) ==
    /\ pc' = [pc EXCEPT ![t] = IF r.panic THEN "panicked" ELSE "idle"]
    /\ ret' = [ret EXCEPT ![t] = r]
    /\ buf' = [buf EXCEPT ![t] = NoBuf]

\* the call of thread t goes on at location l with b in hand
Goto(t, l, b) ==
    /\ pc' = [pc EXCEPT ![t] = l]
    /\ buf' = [buf EXCEPT ![t] = b]
    /\ ret' = ret

CanCall(t) == pc[t] = "idle" /\ calls < MaxCalls

Begin(t, op, index, uri, comp) ==
    /\ call' = [call EXCEPT ![t] = [op |-> op, index |-> index, uri |-> uri, comp |-> comp]]
    /\ calls' = calls + 1

\* a thread calls Accessor::get
TGet(t, uri) ==
    /\ CanCall(t)
    /\ Begin(t, "get", 0, uri, "Uncompressed")
    /\ Goto(t, "get_lock", NoBuf)
    /\ UNCHANGED <<scene, build, graphVars, first, last, ops, panicked, travVars,
                   mesh, holders, inserts>>

\* a thread calls get_node_page
TGetNodePage(t, index) ==
    /\ CanCall(t)
    /\ Begin(t, "page", index, NodePagePath(index), "Uncompressed")
    /\ Goto(t, "page_check", NoBuf)
    /\ UNCHANGED <<scene, build, graphVars, first, last, ops, panicked, travVars,
                   mesh, holders, inserts>>

\* a thread calls get_node: the scene's page layout, the page index
TGetNode(t, index) ==
    /\ CanCall(t)
    /\ Begin(t, "node", index,
             IF scene.def.node_pages.present /\ scene.def.node_pages.nodes_per_page > 0
             THEN NodePagePath(get_node_page_index(index, scene.def.node_pages.nodes_per_page))
             ELSE "",
             "Uncompressed")
    /\ IF ~scene.def.node_pages.present
       THEN Return(t, Err("NodePages definition not found in scene definition."))
       ELSE IF scene.def.node_pages.nodes_per_page = 0
       THEN Return(t, Panic("attempt to divide by zero"))
       ELSE Goto(t, "page_check", NoBuf)
    /\ UNCHANGED <<scene, build, graphVars, first, last, ops, panicked, travVars,
                   mesh, holders, inserts>>

\* the page index of the call of thread t
CallPage(t) ==
    IF call[t].op = "node"
    THEN get_node_page_index(call[t].index, scene.def.node_pages.nodes_per_page)
    ELSE call[t].index

\* get_node_page: if !self.cache.contains_key(&key)
PageCheck(t) ==
    /\ pc[t] = "page_check"
    /\ IF PageCached(cache, NodePageKey(CallPage(t)))
       THEN Goto(t, "page_ret", NoBuf)
       ELSE Goto(t, "get_lock", NoBuf)
    /\ UNCHANGED <<scene, build, graphVars, first, last, ops, panicked, travVars,
                   call, mesh, calls, holders, inserts>>

\* get: let mut archive = self.archive.write().unwrap()
GetLock(t) ==
    /\ pc[t] = "get_lock"
    /\ CanLock(holders)
    /\ holders' = holders \cup {t}
    /\ Goto(t, "get_byname", NoBuf)
    /\ UNCHANGED <<scene, build, graphVars, first, last, ops, panicked, travVars,
                   call, mesh, calls, inserts>>

\* a caller of get that asks again while its entry was asked for at most once
AfterGetOnceMore(t, r) ==
    IF ~r.ok /\ call[t].op # "get" /\ BagCount(fetches, call[t].uri) <= 1
    THEN Goto(t, "get_lock", NoBuf) /\ UNCHANGED mesh
    ELSE IF call[t].op = "get" \/ ~r.ok
    THEN Return(t, r) /\ UNCHANGED mesh
    ELSE IF call[t].op \in {"page", "node"}
    THEN Goto(t, "page_gunzip", r.val) /\ UNCHANGED mesh
    ELSE IF call[t].op = "geom"
    THEN Goto(t, "geom_gunzip", r.val) /\ UNCHANGED mesh
    ELSE Goto(t, "mat_store", r.val) /\ UNCHANGED mesh

\* what the caller of get does with its result r
AfterGet(t, r) ==
    IF call[t].op = "get" \/ ~r.ok
    THEN Return(t, r) /\ UNCHANGED mesh
    ELSE IF call[t].op \in {"page", "node"}
    THEN Goto(t, "page_gunzip", r.val) /\ UNCHANGED mesh
    ELSE IF call[t].op = "geom"
    THEN Goto(t, "geom_gunzip", r.val) /\ UNCHANGED mesh
    ELSE Goto(t, "mat_store", r.val) /\ UNCHANGED mesh

\* a get that keeps the write guard when the entry is not found
GetByNameKeepingLock(t) ==
    /\ pc[t] = "get_byname"
    /\ fetches' = BagAdd(fetches, call[t].uri)
    /\ holders' = holders
    /\ IF call[t].uri \notin DOMAIN scene.archive
       THEN AfterGet(t, Err("Failed to find file in archive"))
       ELSE Goto(t, "get_read", NoBuf) /\ UNCHANGED mesh
    /\ UNCHANGED <<scene, build, nodes, cache, failed, faults, first, last, ops, panicked,
                   travVars, call, calls, inserts>>

\* get: archive.by_name(uri)
GetByName(t) ==
    /\ pc[t] = "get_byname"
    /\ fetches' = BagAdd(fetches, call[t].uri)
    /\ IF call[t].uri \notin DOMAIN scene.archive
       THEN /\ holders' = Unlock(holders, t)
            /\ AfterGet(t, Err("Failed to find file in archive"))
       ELSE /\ holders' = holders
            /\ Goto(t, "get_read", NoBuf)
            /\ UNCHANGED mesh
    /\ UNCHANGED <<scene, build, nodes, cache, failed, faults, first, last, ops, panicked,
                   travVars, call, calls, inserts>>

\* get: file.read_to_end(&mut buffer), and the return
GetRead(t, fail) ==
    /\ pc[t] = "get_read"
    /\ fail => faults < MaxFaults
    /\ faults' = IF fail THEN faults + 1 ELSE faults
    /\ holders' = Unlock(holders, t)
    /\ AfterGet(t, IF fail THEN Err("Failed to read file from archive")
                   ELSE Ok(scene.archive[call[t].uri]))
    /\ UNCHANGED <<scene, build, nodes, cache, fetches, failed, first, last, ops, panicked,
                   travVars, call, calls, inserts>>

\* get_node_page: GzDecoder over the bytes read
PageGunzip(t) ==
    /\ pc[t] = "page_gunzip"
    /\ IF GzDecode(buf[t]).ok THEN Goto(t, "page_parse", GzDecode(buf[t]).val)
       ELSE Return(t, GzDecode(buf[t]))
    /\ UNCHANGED <<scene, build, graphVars, first, last, ops, panicked, travVars,
                   call, mesh, calls, holders, inserts>>

\* get_node_page: serde_json::from_slice
PageParse(t) ==
    /\ pc[t] = "page_parse"
    /\ IF ParseNodePage(buf[t]).ok THEN Goto(t, "page_insert", ParseNodePage(buf[t]).val)
       ELSE Return(t, ParseNodePage(buf[t]))
    /\ UNCHANGED <<scene, build, graphVars, first, last, ops, panicked, travVars,
                   call, mesh, calls, holders, inserts>>

\* get_node_page: self.cache.insert(key, Arc::new(node_page))
PageInsert(t) ==
    /\ pc[t] = "page_insert"
    /\ cache' = InsertPage(cache, NodePageKey(CallPage(t)), buf[t])
    /\ inserts' = BagAdd(inserts, NodePageKey(CallPage(t)))
    /\ Goto(t, "page_ret", NoBuf)
    /\ UNCHANGED <<scene, build, nodes, fetches, failed, faults, first, last, ops, panicked,
                   travVars, call, mesh, calls, holders>>

\* what get_node_page returns from the cache: self.cache.get(&key).unwrap().clone()
CachedPage(key) ==
    IF key \in DOMAIN cache THEN Ok(cache[key])
    ELSE Panic("called Option::unwrap() on a None value")

\* get_node_page returns the cached page; get_node picks its node from it
PageRet(t) ==
    /\ pc[t] = "page_ret"
    /\ IF call[t].op = "page" \/ ~CachedPage(NodePageKey(CallPage(t))).ok
       THEN Return(t, CachedPage(NodePageKey(CallPage(t))))
       ELSE Return(t, PickNode([w |-> <<>>, r |-> CachedPage(NodePageKey(CallPage(t)))],
                               get_node_index_in_node_page(call[t].index,
                                   scene.def.node_pages.nodes_per_page)).r)
    /\ UNCHANGED <<scene, build, graphVars, first, last, ops, panicked, travVars,
                   call, mesh, calls, holders, inserts>>

\* a slot that never counts as filled
SlotFilledNever(slot) == FALSE

\* the slot test of the decoders: cache.get("data") is Some
SlotFilled(slot) == slot.present

\* a thread calls decode_geometry on its MeshGeometry
TDecodeGeometry(t, comp) ==
    /\ CanCall(t)
    /\ Begin(t, "geom", 0,
             IF slpk_create_geometry_uri(mesh[t].geometry.resource, comp).ok
             THEN slpk_create_geometry_uri(mesh[t].geometry.resource, comp).val ELSE "",
             comp)
    /\ IF SlotFilled(mesh[t].geometry.cache)
       THEN Return(t, Ok(mesh[t].geometry.cache.data))
       ELSE IF ~slpk_create_geometry_uri(mesh[t].geometry.resource, comp).ok
       THEN Return(t, slpk_create_geometry_uri(mesh[t].geometry.resource, comp))
       ELSE Goto(t, "get_lock", NoBuf)
    /\ UNCHANGED <<scene, build, graphVars, first, last, ops, panicked, travVars,
                   mesh, holders, inserts>>

\* a decode_geometry that stores the bytes read when they do not decompress
GeomGunzipStoring(t) ==
    /\ pc[t] = "geom_gunzip"
    /\ Return(t, GzDecode(buf[t]))
    /\ mesh' = [mesh EXCEPT ![t].geometry.cache =
                    [present |-> TRUE,
                     data |-> IF GzDecode(buf[t]).ok THEN GzDecode(buf[t]).val ELSE buf[t]]]
    /\ UNCHANGED <<scene, build, graphVars, first, last, ops, panicked, travVars,
                   call, calls, holders, inserts>>

\* decode_geometry: GzDecoder over the bytes read, insert into the slot, return
GeomGunzip(t) ==
    /\ pc[t] = "geom_gunzip"
    /\ Return(t, GzDecode(buf[t]))
    /\ mesh' = IF GzDecode(buf[t]).ok
               THEN [mesh EXCEPT ![t].geometry.cache =
                                     [present |-> TRUE, data |-> GzDecode(buf[t]).val]]
               ELSE mesh
    /\ UNCHANGED <<scene, build, graphVars, first, last, ops, panicked, travVars,
                   call, calls, holders, inserts>>

\* a thread calls decode_material on its MeshMaterial
TDecodeMaterial(t, comp) ==
    /\ CanCall(t)
    /\ Begin(t, "mat", 0,
             IF MaterialUri(mesh[t].material, comp).ok
             THEN MaterialUri(mesh[t].material, comp).val ELSE "",
             comp)
    /\ IF SlotFilled(mesh[t].material.cache)
       THEN Return(t, Ok(mesh[t].material.cache.data))
       ELSE IF ~MaterialUri(mesh[t].material, comp).ok
       THEN Return(t, MaterialUri(mesh[t].material, comp))
       ELSE Goto(t, "get_lock", NoBuf)
    /\ UNCHANGED <<scene, build, graphVars, first, last, ops, panicked, travVars,
                   mesh, holders, inserts>>

\* decode_material: insert the bytes read into the slot, return them
MatStore(t) ==
    /\ pc[t] = "mat_store"
    /\ mesh' = [mesh EXCEPT ![t].material.cache = [present |-> TRUE, data |-> buf[t]]]
    /\ Return(t, Ok(buf[t]))
    /\ UNCHANGED <<scene, build, graphVars, first, last, ops, panicked, travVars,
                   call, calls, holders, inserts>>

\* a scene with geometry and texture payloads: the tree, its page 1 with
\* the given defect, one resource folder
GeomBlob == [enc |-> "gzip", body |-> [kind |-> "geometry", nodes |-> <<>>]]
TexBlob == [enc |-> "raw", body |-> [kind |-> "texture", nodes |-> <<>>]]

ConcScene(defect) ==
    [def |-> [node_pages |-> NodePagesDef(2, 0),
              geometry_definitions |->
                  Table(<< [geometry_buffers |-> << [compressed |-> FALSE],
                                                     [compressed |-> TRUE] >>] >>),
              texture_set_definitions |->
                  Table(<< [formats |-> << [name |-> "0", format |-> "jpg"],
                                           [name |-> "0_0_1", format |-> "dds"] >>] >>)],
     archive |-> MkArchive(TreeShape, 2, defect)
                 @@ ("nodes/0/geometries/0.bin" :> GeomBlob)
                 @@ ("nodes/0/geometries/1.bin" :> GeomBlob)
                 @@ ("nodes/0/textures/0.bin.jpg" :> TexBlob)]

ConcScenes == {ConcScene(d) : d \in {"none", "badjson"}}

ConcPages == {0, 1}
ConcNodes == {1, 3}
ConcUris == {"nodes/0/geometries/0.bin", "nodepages/7.json.gz"}
Compressions == {"Uncompressed", "Compressed"}

InitConc ==
    /\ scene \in ConcScenes
    /\ build = "release"
    /\ InitCaller

NextConc ==
    \E t \in Threads :
        \/ \E uri \in ConcUris : TGet(t, uri)
        \/ \E p \in ConcPages : TGetNodePage(t, p)
        \/ \E i \in ConcNodes : TGetNode(t, i)
        \/ \E c \in Compressions : TDecodeGeometry(t, c)
        \/ \E c \in Compressions : TDecodeMaterial(t, c)
        \/ PageCheck(t)
        \/ GetLock(t)
        \/ GetByName(t)
        \/ \E fail \in BOOLEAN : GetRead(t, fail)
        \/ PageGunzip(t)
        \/ PageParse(t)
        \/ PageInsert(t)
        \/ PageRet(t)
        \/ GeomGunzip(t)
        \/ MatStore(t)

\* threads calling into one shared archive-backed scene
SpecConc == InitConc /\ [][NextConc]_vars

----------------------------------------------------------------------------
(* Claims about threads sharing the archive-backed scene (SpecConc) *)

\* the threads inside the archive read of get: the entry lookup or the read
InArchiveRead == {t \in Threads : pc[t] \in {"get_byname", "get_read"}}

\* the page-cache keys the threads ask for
ConcKeys == {NodePageKey(p) : p \in ConcPages}

\* the page index of a page-cache key
PageOfKey(key) == CHOOSE p \in ConcPages : NodePageKey(p) = key

\* C8: when threads request the same uncached page concurrently, the page
\* cache holds one entry for the page index once an insert for it has
\* completed, the entry is the completely parsed page a single sequential
\* request stores, and no thread reading the entry back finds it missing or
\* different: a get_node_page call that returns a page returns that page.
C8_RaceConvergesToOneCompleteEntry ==
    /\ \A key \in DOMAIN cache :
          /\ key \in ConcKeys
          /\ ScenePage(PageOfKey(key)).ok
          /\ cache[key] = ScenePage(PageOfKey(key)).val
    /\ \A key \in DOMAIN inserts : key \in DOMAIN cache
    /\ \A t \in Threads :
          /\ pc[t] = "page_ret" => CachedPage(NodePageKey(CallPage(t))).ok
          /\ (call[t].op \in {"page", "node"}) => ~ret[t].panic
          /\ (call[t].op = "page" /\ pc[t] = "idle" /\ ret[t].ok) =>
                 ret[t].val = ScenePage(call[t].index).val

\* two threads both found page 0 absent, both inserted it, both returned it
C8_Witness ==
    /\ BagCount(inserts, NodePageKey(0)) = 2
    /\ \A t \in Threads : call[t].op = "page" /\ call[t].index = 0
                          /\ pc[t] = "idle" /\ ret[t].ok
                          /\ Len(ret[t].val.nodes) = 2

\* C9: at most one thread at a time is inside the archive read (entry lookup
\* plus read-to-end) of get.
C9_ArchiveReadExclusive == Cardinality(InArchiveRead) <= 1

\* one thread is reading an entry while another waits for the lock
C9_Witness ==
    \E t, u \in Threads : pc[t] = "get_read" /\ pc[u] = "get_lock" /\ holders = {t}

\* C10: the archive lock is held only inside the read of get: no thread holds
\* it while decompressing, parsing a node page, reading or inserting into the
\* page cache or a decode slot, or between calls.
C10_LockOnlyDuringRead == \A t \in holders : t \in InArchiveRead

\* a thread is past its read (decompressing, parsing, inserting or storing)
\* while another thread holds the lock for its own read
C10_Witness ==
    \E t, u \in Threads :
        /\ pc[t] \in {"page_gunzip", "page_parse", "page_insert", "geom_gunzip", "mat_store"}
        /\ pc[u] = "get_read"
        /\ holders = {u}

----------------------------------------------------------------------------
(* The URI builder of the service backend, and the dispatch of             *)
(* ResourceManager.  The service builders return an Option: Some(path) is  *)
(* modelled as Ok(path), None as Err("None").                              *)

service_uncompressed_texture_uri(resource, name) ==
    IF scene.def.texture_set_definitions.present
    THEN IF Len(scene.def.texture_set_definitions.defs) # 0
         THEN Ok("layers/0/nodes/" \o ToString(resource) \o "/textures/" \o name)
         ELSE Err("None")
    ELSE Err("None")

service_compressed_texture_uri(resource, name) ==
    IF scene.def.texture_set_definitions.present
    THEN IF \E k \in DOMAIN scene.def.texture_set_definitions.defs :
                texture_has_compressed(scene.def.texture_set_definitions.defs[k])
         THEN Ok("layers/0/nodes/" \o ToString(resource) \o "/textures/" \o name)
         ELSE Err("None")
    ELSE Err("None")

service_uncompressed_geometry_uri(resource) ==
    "layers/0/nodes/" \o ToString(resource) \o "/geometries/0"

service_compressed_geometry_uri(resource) ==
    IF scene.def.geometry_definitions.present
    THEN IF \E k \in DOMAIN scene.def.geometry_definitions.defs :
                geometry_has_compressed(scene.def.geometry_definitions.defs[k])
         THEN Ok("layers/0/nodes/" \o ToString(resource) \o "/geometries/1")
         ELSE Err("None")
    ELSE Err("None")

service_create_geometry_uri(resource, compression) ==
    IF compression = "Compressed" THEN service_compressed_geometry_uri(resource)
    ELSE Ok(service_uncompressed_geometry_uri(resource))

service_create_texture_uri(resource, name, fmt, compression) ==
    IF compression = "Compressed" THEN service_compressed_texture_uri(resource, name)
    ELSE service_uncompressed_texture_uri(resource, name)

\* impl UriBuilder for ResourceManager
manager_create_geometry_uri(manager, resource, compression) ==
    IF manager = "Service" THEN service_create_geometry_uri(resource, compression)
    ELSE slpk_create_geometry_uri(resource, compression)

manager_create_texture_uri(manager, resource, name, fmt, compression) ==
    IF manager = "Service" THEN service_create_texture_uri(resource, name, fmt, compression)
    ELSE slpk_create_texture_uri(resource, name, fmt, compression)

----------------------------------------------------------------------------
(* URI requests against one scene definition, answered by both backends *)

PlainBuffer == [compressed |-> FALSE]
DracoBuffer == [compressed |-> TRUE]
GeometryDef(buffers) == [geometry_buffers |-> buffers]

GeometryTables ==
    { NoTable,
      Table(<<>>),
      Table(<< GeometryDef(<<PlainBuffer>>) >>),
      Table(<< GeometryDef(<<>>), GeometryDef(<<PlainBuffer>>) >>),
      Table(<< GeometryDef(<<PlainBuffer, DracoBuffer>>) >>),
      Table(<< GeometryDef(<<PlainBuffer>>), GeometryDef(<<PlainBuffer, DracoBuffer>>) >>) }

Jpg == [name |-> "0", format |-> "jpg"]
Png == [name |-> "1", format |-> "png"]
Dds == [name |-> "0_0_1", format |-> "dds"]
TextureSetDef(formats) == [formats |-> formats]

TextureTables ==
    { NoTable,
      Table(<<>>),
      Table(<< TextureSetDef(<<>>) >>),
      Table(<< TextureSetDef(<<Jpg>>) >>),
      Table(<< TextureSetDef(<<Jpg, Dds>>) >>),
      Table(<< TextureSetDef(<<Jpg>>), TextureSetDef(<<Jpg, Dds>>) >>),
      Table(<< TextureSetDef(<<Jpg, Png, Dds>>) >>) }

UriScene(geometry, texture) ==
    [def |-> [node_pages |-> NodePagesDef(2, 0),
              geometry_definitions |-> geometry,
              texture_set_definitions |-> texture],
     archive |-> EmptyMap]

UriScenes == {UriScene(g, t) : g \in GeometryTables, t \in TextureTables}

Resources == 0..MaxResource
TextureNames == {"0", "0_0_1"}
FormatNames == {"jpg", "dds"}

\* the answers of the backends to one request
Answers(kind, resource, name, fmt, compression, slpk, service) ==
    [q |-> kind, resource |-> resource, name |-> name, fmt |-> fmt,
     compression |-> compression, slpk |-> slpk, service |-> service]

CallCreateGeometryUri(resource, compression) ==
    /\ last' = Answers("geometry", resource, "", "", compression,
                       manager_create_geometry_uri("SceneLayerPackage", resource, compression),
                       manager_create_geometry_uri("Service", resource, compression))
    /\ UNCHANGED <<scene, build, graphVars, first, ops, panicked, travVars, thrVars>>

CallCreateTextureUri(resource, name, fmt, compression) ==
    /\ last' = Answers("texture", resource, name, fmt, compression,
                       manager_create_texture_uri("SceneLayerPackage", resource, name, fmt,
                                                  compression),
                       manager_create_texture_uri("Service", resource, name, fmt, compression))
    /\ UNCHANGED <<scene, build, graphVars, first, ops, panicked, travVars, thrVars>>

InitUri == scene \in UriScenes /\ build = "release" /\ InitCaller

NextUri ==
    \/ \E r \in Resources, c \in Compressions : CallCreateGeometryUri(r, c)
    \/ \E r \in Resources, n \in TextureNames, f \in FormatNames, c \in Compressions :
           CallCreateTextureUri(r, n, f, c)

\* URI requests against one scene definition
SpecUri == InitUri /\ [][NextUri]_vars

\* the scene declares a geometry definition with a compressed buffer
SceneHasCompressedGeometry ==
    /\ scene.def.geometry_definitions.present
    /\ \E k \in DOMAIN scene.def.geometry_definitions.defs :
          \E b \in DOMAIN scene.def.geometry_definitions.defs[k].geometry_buffers :
              scene.def.geometry_definitions.defs[k].geometry_buffers[b].compressed

\* the scene declares a texture-set definition with exactly two format slots
SceneHasTwoSlotTexture ==
    /\ scene.def.texture_set_definitions.present
    /\ \E k \in DOMAIN scene.def.texture_set_definitions.defs :
          Len(scene.def.texture_set_definitions.defs[k].formats) = 2

\* C11: a compressed geometry request returns the slot-1 path of the resource
\* if and only if a geometry definition of the scene has a buffer declaring
\* compressed attributes; otherwise it returns an error and no path.
C11_CompressedGeometryIffDeclared ==
    (last.q = "geometry" /\ last.compression = "Compressed") =>
        IF SceneHasCompressedGeometry
        THEN /\ last.slpk = Ok("nodes/" \o ToString(last.resource) \o "/geometries/1.bin")
             /\ last.service = Ok("layers/0/nodes/" \o ToString(last.resource) \o "/geometries/1")
        ELSE ~last.slpk.ok /\ ~last.slpk.panic /\ ~last.service.ok /\ ~last.service.panic

\* a compressed geometry request was refused for a scene that has geometry
\* definitions, none of them with a compressed buffer
C11_Witness ==
    /\ last.q = "geometry" /\ last.compression = "Compressed"
    /\ scene.def.geometry_definitions.present
    /\ Len(scene.def.geometry_definitions.defs) = 2
    /\ ~SceneHasCompressedGeometry
    /\ last.slpk = Err("No compressed geometry URI available")

\* C12: an uncompressed geometry request always succeeds and returns the
\* slot-0 path of the resource, on both backends and for every scene.
C12_UncompressedGeometryAlways ==
    (last.q = "geometry" /\ last.compression = "Uncompressed") =>
        /\ last.slpk = Ok("nodes/" \o ToString(last.resource) \o "/geometries/0.bin")
        /\ last.service = Ok("layers/0/nodes/" \o ToString(last.resource) \o "/geometries/0")

\* an uncompressed geometry request for resource 1 against a scene without a
\* geometry-definition table
C12_Witness ==
    /\ last.q = "geometry" /\ last.compression = "Uncompressed" /\ last.resource = 1
    /\ ~scene.def.geometry_definitions.present
    /\ last.slpk.ok /\ last.service.ok

\* the uncompressed texture paths of a request
UncompressedTexturePaths(resource, name, fmt) ==
    { "nodes/" \o ToString(resource) \o "/textures/" \o name \o ".bin." \o fmt }

C14_BackendsAgreeOnAvailability ==
    (last.q \in {"geometry", "texture"}) => (last.slpk.ok <=> last.service.ok)

----------------------------------------------------------------------------
(* The decoders called on one mesh.  decode_geometry and decode_material   *)
(* take the component by &mut, so one thread at a time works on a mesh:    *)
(* its owner makes the calls, step by step as above.                       *)

DecodeTextureTables ==
    TextureTables \cup { Table(<< TextureSetDef(<<Jpg, Png>>) >>) }

DecodeGeometryTables ==
    { NoTable, Table(<< GeometryDef(<<PlainBuffer, DracoBuffer>>) >>) }

\* an archive with the payloads of resource 0; the compressed geometry entry
\* holds bytes that are not gzip
DecodeArchive ==
    ("nodes/0/geometries/0.bin" :> GeomBlob)
    @@ ("nodes/0/geometries/1.bin" :> TexBlob)
    @@ ("nodes/0/textures/0.bin.jpg" :> TexBlob)
    @@ ("nodes/0/textures/1.bin.png.gz" :> GeomBlob)

DecodeScene(geometry, texture) ==
    [def |-> [node_pages |-> NodePagesDef(2, 0),
              geometry_definitions |-> geometry,
              texture_set_definitions |-> texture],
     archive |-> DecodeArchive]

DecodeScenes == {DecodeScene(g, t) : g \in DecodeGeometryTables, t \in DecodeTextureTables}

\* the thread that owns the mesh
MeshOwner == CHOOSE t \in Threads : \A u \in Threads : t <= u

InitDecode ==
    /\ scene \in DecodeScenes
    /\ build = "release"
    /\ InitThreadState
    /\ InitCallerState
    /\ \E d \in 0..MaxDefinition : mesh = [t \in Threads |-> MeshOf(d)]

NextDecode ==
    \/ \E c \in Compressions : TDecodeGeometry(MeshOwner, c)
    \/ \E c \in Compressions : TDecodeMaterial(MeshOwner, c)
    \/ GetLock(MeshOwner)
    \/ GetByName(MeshOwner)
    \/ \E fail \in BOOLEAN : GetRead(MeshOwner, fail)
    \/ GeomGunzip(MeshOwner)
    \/ MatStore(MeshOwner)

\* decode calls on one mesh
SpecDecode == InitDecode /\ [][NextDecode]_vars

\* the cache slot of the component the call of thread t works on
SlotOf(t) ==
    IF call[t].op = "geom" THEN mesh[t].geometry.cache ELSE mesh[t].material.cache

\* thread t is in a decode call, between its slot test and its return
Decoding(t) ==
    /\ call[t].op \in {"geom", "mat"}
    /\ pc[t] \in {"get_lock", "get_byname", "get_read", "geom_gunzip", "mat_store"}

\* thread t has returned a buffer from a decode call
Decoded(t) == call[t].op \in {"geom", "mat"} /\ pc[t] = "idle" /\ ret[t].ok

\* C15: once the cache slot of a mesh component is filled, the slot keeps its
\* buffer, a decode call that finds it filled goes to no fetch, and every
\* decode call that returns a buffer returns the buffer of the slot: two
\* calls on the same component return the same bytes, the second without a
\* backend fetch.
C15_DecodeTwiceFromSlot ==
    [][/\ \A t \in Threads :
            /\ mesh[t].geometry.cache.present =>
                   mesh'[t].geometry.cache = mesh[t].geometry.cache
            /\ mesh[t].material.cache.present =>
                   mesh'[t].material.cache = mesh[t].material.cache
            /\ Decoding(t)' => ~SlotOf(t)'.present
            /\ Decoded(t)' => (SlotOf(t)'.present /\ ret'[t].val = SlotOf(t)'.data)
       /\ fetches' # fetches => \E t \in Threads : Decoding(t) /\ ~SlotOf(t).present]_vars

\* the owner decoded the geometry twice: both calls returned the buffer, the
\* archive was read once
C15_Witness ==
    /\ calls = 2 /\ Decoded(MeshOwner) /\ call[MeshOwner].op = "geom"
    /\ mesh[MeshOwner].geometry.cache.present
    /\ ~mesh[MeshOwner].material.cache.present
    /\ fetches = ("nodes/0/geometries/0.bin" :> 1)

\* the material of thread t names no format slot for the compression asked:
\* its definition id is outside the table, or the definition lacks the slot
NoFormatSlot(t) ==
    /\ scene.def.texture_set_definitions.present
    /\ \/ mesh[t].material.definition >= Len(scene.def.texture_set_definitions.defs)
       \/ Len(scene.def.texture_set_definitions.defs[mesh[t].material.definition + 1].formats)
              < (IF call[t].comp = "Compressed" THEN 2 ELSE 1)

\* C16: decode_material on a material whose definition id is outside the
\* texture-set-definition table, or whose definition lacks the format slot of
\* the compression asked, returns an error: it does not panic, fetches
\* nothing and leaves the cache slot of the material empty.
C16_BadDefinitionIsError ==
    \A t \in Threads :
        (calls = 1 /\ call[t].op = "mat" /\ NoFormatSlot(t)) =>
            /\ pc[t] = "idle"
            /\ ~ret[t].ok
            /\ ~ret[t].panic
            /\ fetches = EmptyBag
            /\ ~mesh[t].material.cache.present

----------------------------------------------------------------------------
(* Opening a scene.  A URI is modelled by what the code tests of it:       *)
(* whether it ends with ".slpk" and whether it starts with "http".  The    *)
(* environment (held in scene) is what is found at the URI: a file that is *)
(* absent, not a ZIP or a ZIP archive with its entries, and what the       *)
(* server answers to the layer request.                                    *)

Uri(ends_slpk, starts_http) == [ends_slpk |-> ends_slpk, starts_http |-> starts_http]

\* I3SFormat::from_uri
I3SFormat_from_uri(uri) ==
    IF uri.ends_slpk THEN Ok("SLPK")
    ELSE IF uri.starts_http THEN Ok("REST")
    ELSE Err("Invalid URI")

\* serde_json::from_slice::<SceneDefinition>
ParseSceneDefinition(body) ==
    IF body.kind = "scene" THEN Ok(body.def) ELSE Err("Failed to parse 3dSceneLayer.json.gz")

\* decode_scene_definition
decode_scene_definition(data) ==
    IF GzDecode(data).ok THEN ParseSceneDefinition(GzDecode(data).val)
    ELSE Err("Failed to decompress 3dSceneLayer.json.gz")

\* get_data_from_zip
get_data_from_zip(env, uri) ==
    IF uri \notin DOMAIN env.archive THEN Err("Failed to find file in archive")
    ELSE IF uri \in env.unreadable THEN Err("Failed to read file from archive")
    ELSE Ok(env.archive[uri])

\* open, the bytes of the scene-definition entry in hand
OpenWithData(env, data) ==
    IF ~data.ok THEN data
    ELSE IF ~decode_scene_definition(data.val).ok
    THEN Err("Failed to decode scene definition")
    ELSE Ok([backend |-> "SceneLayerPackage",
             scene_definition |-> decode_scene_definition(data.val).val])

\* SceneLayerPackage::open
SceneLayerPackage_open(env) ==
    IF env.file = "absent" THEN Err("Failed to open file")
    ELSE IF env.file = "notzip" THEN Err("Failed to read ZIP archive")
    ELSE OpenWithData(env, get_data_from_zip(env, "3dSceneLayer.json.gz"))

\* get_scene_definition of the service: send, json, from_value
get_scene_definition(env) ==
    IF env.server = "unreachable" THEN Err("Request error")
    ELSE IF env.server = "notjson" THEN Err("JSON parse error")
    ELSE IF env.server = "baddefinition" THEN Err("Could not parse scene definition")
    ELSE Ok(env.served)

\* Service::connect
Service_connect(env) ==
    IF ~get_scene_definition(env).ok THEN Err("Failed to get scene definition")
    ELSE Ok([backend |-> "Service", scene_definition |-> get_scene_definition(env).val])

\* Result::unwrap
Unwrap(r) ==
    IF r.ok THEN r ELSE Panic("called Result::unwrap() on an Err value")

\* the closure resource_manager_factory returns, applied to the URI
resource_manager_factory(fmt, env) ==
    IF fmt = "REST" THEN Unwrap(Service_connect(env))
    ELSE Unwrap(SceneLayerPackage_open(env))

\* SceneLayer::new
SceneLayer_new(manager) ==
    IF ~manager.ok THEN manager
    ELSE Ok([manager |-> manager.val, definition |-> manager.val.scene_definition])

\* SceneLayer::from_uri
SceneLayer_from_uri(uri, env) ==
    IF ~I3SFormat_from_uri(uri).ok THEN I3SFormat_from_uri(uri)
    ELSE SceneLayer_new(resource_manager_factory(I3SFormat_from_uri(uri).val, env))

SceneDefinitionOf(pages) ==
    [node_pages |-> pages, geometry_definitions |-> NoTable,
     texture_set_definitions |-> NoTable]

SceneEntry(enc, kind, pages) ==
    [enc |-> enc, body |-> [kind |-> kind, def |-> SceneDefinitionOf(pages)]]

\* the archives found at a URI: with the scene-definition entry, good or
\* damaged, and without it
OpenArchives ==
    { MkArchive(TreeShape, 2, "none") }
    \cup { MkArchive(TreeShape, 2, "none") @@ ("3dSceneLayer.json.gz" :> SceneEntry(e, k, p)) :
               e \in {"gzip", "raw"}, k \in {"scene", "junk"},
               p \in {NodePagesDef(2, 0), [present |-> FALSE, nodes_per_page |-> 0,
                                           root_index |-> 0]} }

OpenEnvs ==
    { [file |-> f, archive |-> a, unreadable |-> u, server |-> s,
       served |-> SceneDefinitionOf(NodePagesDef(2, 0))] :
          f \in {"absent", "notzip", "zip"}, a \in OpenArchives,
          u \in {{}, {"3dSceneLayer.json.gz"}},
          s \in {"unreachable", "notjson", "baddefinition", "good"} }

Uris == {Uri(s, h) : s, h \in BOOLEAN}

CallFromUri(uri) ==
    /\ last' = [q |-> "from_uri", uri |-> uri, r |-> SceneLayer_from_uri(uri, scene)]
    /\ panicked' = SceneLayer_from_uri(uri, scene).panic
    /\ UNCHANGED <<scene, build, graphVars, first, ops, travVars, thrVars>>

InitOpen == scene \in OpenEnvs /\ build = "release" /\ InitCaller

NextOpen == \E uri \in Uris : CallFromUri(uri)

\* opening a scene from a URI
SpecOpen == InitOpen /\ [][NextOpen]_vars

\* the URI names an archive file that is a ZIP without the scene-definition entry
ArchiveLacksDefinition(uri) ==
    /\ uri.ends_slpk
    /\ scene.file = "zip"
    /\ "3dSceneLayer.json.gz" \notin DOMAIN scene.archive

\* C17: opening a scene from an archive that lacks the scene-definition entry
\* makes SceneLayer::from_uri return an error to the caller, not panic.
C17_MissingDefinitionIsError ==
    (last.q = "from_uri" /\ ArchiveLacksDefinition(last.uri)) =>
        (~last.r.ok /\ ~last.r.panic)

----------------------------------------------------------------------------
(* Claims about the outcome of root and get *)

\* the causes a node page fails to load with
PageFailureCauses ==
    { "Failed to find file in archive", "Failed to read file from archive",
      "Failed to decompress", "Could not parse Node Page" }

\* the page of the index last asked for cannot be loaded from the archive
LastPageBroken ==
    ~ScenePage(get_node_page_index(last.n, scene.def.node_pages.nodes_per_page)).ok

\* C18: when a transport, decompression or parse failure stops root or get
\* from resolving the index asked for, the caller is given the cause of the
\* failure.
C18_FailureCarriesCause ==
    (last.q \in {"get", "root"} /\ last.r = <<>> /\ (last.fault \/ LastPageBroken)) =>
        last.err \in PageFailureCauses

----------------------------------------------------------------------------
(* Scenes with another root, and a scene without a node-page layout *)

NoNodePages == [present |-> FALSE, nodes_per_page |-> 0, root_index |-> 0]

RootScene(root, npp) ==
    [MkScene(TreeShape, npp, "none") EXCEPT !.def.node_pages.root_index = root]

NoLayoutScene(npp) ==
    [MkScene(TreeShape, npp, "none") EXCEPT !.def.node_pages = NoNodePages]

RootScenes ==
    {RootScene(r, npp) : r \in 0..MaxIndex, npp \in NppChoices}
    \cup {NoLayoutScene(npp) : npp \in NppChoices}

InitRoot == scene \in RootScenes /\ build = "release" /\ InitCaller

\* one caller navigating a scene whose root is any index
SpecRoot == InitRoot /\ [][NextGraph]_vars

\* the index the scene names as its root: 0 without a node-page layout
DeclaredRoot ==
    IF scene.def.node_pages.present THEN scene.def.node_pages.root_index ELSE 0

\* C19: root resolves the index the scene's NodePageDefinition names as
\* root_index, and index 0 when the scene declares no node-page layout: the
\* node it returns is the node of that index, and it returns it whenever that
\* index resolves.
C19_RootIsDeclaredRoot ==
    (last.q = "root") =>
        /\ last.n = DeclaredRoot
        /\ last.r # <<>> =>
               (last.r[1].index = DeclaredRoot /\ last.r = <<SceneNode(DeclaredRoot).val>>)
        /\ (scene.def.node_pages.present /\ ~last.fault) =>
               (last.r # <<>> <=> Resolves(DeclaredRoot))
        /\ ~scene.def.node_pages.present => last.r = <<>>

\* root returned node 2 of a scene whose root_index is 2
C19_Witness ==
    /\ last.q = "root"
    /\ scene.def.node_pages.present
    /\ scene.def.node_pages.root_index = 2
    /\ last.r # <<>>
    /\ last.r[1].index = 2

----------------------------------------------------------------------------
(* Locating a node index in the node pages *)

\* the page and the offset the two index functions give for a node index
CallLocate(node_index, nodes_per_page) ==
    /\ last' = [q |-> "locate", node_index |-> node_index, nodes_per_page |-> nodes_per_page,
                page |-> get_node_page_index(node_index, nodes_per_page),
                offset |-> get_node_index_in_node_page(node_index, nodes_per_page)]
    /\ UNCHANGED <<scene, build, graphVars, first, ops, panicked, travVars, thrVars>>

InitLocate == scene \in GraphScenes /\ build = "release" /\ InitCaller

NextLocate == \E i \in 0..MaxNodeIndex, n \in 1..MaxPerPage : CallLocate(i, n)

\* the index functions applied to node indices and page sizes
SpecLocate == InitLocate /\ [][NextLocate]_vars

\* C20: for a node index i and nodes_per_page n > 0, the page index p and the
\* offset o satisfy p * n + o = i and 0 <= o < n.
C20_PageAndOffsetRecompose ==
    (last.q = "locate") =>
        /\ last.page * last.nodes_per_page + last.offset = last.node_index
        /\ 0 <= last.offset
        /\ last.offset < last.nodes_per_page

\* an index in the middle of a later page: page 3, offset 2 of pages of 5
C20_Witness ==
    /\ last.q = "locate" /\ last.node_index = 17 /\ last.nodes_per_page = 5
    /\ last.page = 3 /\ last.offset = 2

----------------------------------------------------------------------------
(* Resolving in a scene whose node-page definition declares a page size of *)
(* zero.                                                                   *)

\* a scene definition with nodesPerPage 0 over the archive of the tree scene
ZeroPageScene ==
    [def |-> [node_pages |-> NodePagesDef(0, 0),
              geometry_definitions |-> NoTable,
              texture_set_definitions |-> NoTable],
     archive |-> MkArchive(TreeShape, 2, "none")]

ZeroScenes == {ZeroPageScene, MkScene(TreeShape, 2, "none")}

InitZero == scene \in ZeroScenes /\ build \in {"debug", "release"} /\ InitCaller

\* one caller navigating a scene whose page size may be zero
SpecZero == InitZero /\ [][NextGraph]_vars

PageSizeIsZero ==
    scene.def.node_pages.present /\ scene.def.node_pages.nodes_per_page = 0

\* C21: resolving a node in a scene that declares nodes_per_page = 0 yields an
\* error or absent result: the call returns (it does not panic on a division
\* by zero), returns no node, and puts nothing into the caches.
C21_ZeroPageSizeIsAbsent ==
    (PageSizeIsZero /\ last.q \in {"get", "root"}) =>
        /\ ~panicked
        /\ last.r = <<>>
        /\ nodes = EmptyMap /\ cache = EmptyMap

----------------------------------------------------------------------------
(* Resolving an index past the end of its page *)

OffsetOfIndex(i) == i % scene.def.node_pages.nodes_per_page

\* the page of index i is in the scene and holds fewer nodes than i's offset
\* needs
PastEndOfPage(i) ==
    /\ ScenePage(i \div scene.def.node_pages.nodes_per_page).ok
    /\ OffsetOfIndex(i) >=
           Len(ScenePage(i \div scene.def.node_pages.nodes_per_page).val.nodes)

\* C22: resolving an index whose offset in its page is not below the number
\* of nodes the page holds returns no node from NodeArray::get and never
\* panics, the backend get_node answers it with an error (also once the page
\* is cached), and the node cache gets no entry for the index.
C22_PastEndOfPageIsAbsent ==
    (last.q = "get" /\ PastEndOfPage(last.n)) =>
        /\ ~panicked
        /\ last.r = <<>>
        /\ last.n \notin DOMAIN nodes
        /\ ~GetNode(World(0), last.n).r.ok
        /\ ~GetNode(World(0), last.n).r.panic

\* C22 witness: index 5 was asked for, its page was read and parsed (it is in
\* the page cache), and the page is too short for it
C22_Witness ==
    /\ last.q = "get" /\ last.n = 5 /\ ~last.fault
    /\ PastEndOfPage(5)
    /\ NodePageKey(5 \div scene.def.node_pages.nodes_per_page) \in DOMAIN cache
    /\ last.r = <<>>

----------------------------------------------------------------------------
(* The children get_children returns *)

NodesOfIndices(is) == [k \in 1..Len(is) |-> SceneNode(is[k]).val]

\* the children the node lists that resolve in the scene, in listed order
ResolvingChildren(self) == NodesOfIndices(SelectSeq(self.children, Resolves))

\* C23: get_children returns exactly the listed children that resolve, in the
\* order of the node's children field; a listed index that does not resolve
\* is left out and the call neither fails nor panics.  (Stated for the calls
\* no transient read failure hit.)
C23_ChildrenThatResolveInOrder ==
    (last.q = "children" /\ ~last.fault) =>
        /\ ~panicked
        /\ last.r = ResolvingChildren(LastSelf)

\* C23 witness: get_children on a node listing three indices, the middle one
\* dangling, returned the other two in listed order
C23_Witness ==
    /\ last.q = "children" /\ ~last.fault
    /\ LastSelf.children = <<1, 5, 2>>
    /\ Indices(last.r) = <<1, 2>>

----------------------------------------------------------------------------
(* traverse over scenes with unresolvable nodes, the root among them *)

\* the tree scene with its root index naming a node of the broken page 1
BrokenRootScene(npp, defect) ==
    [MkScene(TreeShape, npp, defect) EXCEPT !.def.node_pages.root_index = npp]

\* the tree scene with a root index no page holds
DanglingRootScene(npp) ==
    [MkScene(TreeShape, npp, "none") EXCEPT !.def.node_pages.root_index = MaxIndex]

PruneScenes ==
    GraphScenes
    \cup {BrokenRootScene(npp, d) : npp \in NppChoices, d \in Defects \ {"none"}}
    \cup {DanglingRootScene(npp) : npp \in NppChoices}
    \cup {NoLayoutScene(npp) : npp \in NppChoices}

InitPrune == scene \in PruneScenes /\ build = "release" /\ InitCaller

\* one caller walking a scene some of whose nodes do not resolve
SpecPrune == InitPrune /\ [][NextTraverse]_vars

\* the root index resolves in the scene
RootResolves == scene.def.node_pages.present /\ Resolves(RootIndex)

\* the indices reachable from the root through nodes that resolve
ReachableThroughResolvable == IF RootResolves THEN ReachableFrom({RootIndex}) ELSE {}

\* C24: a node that does not resolve prunes only its own branch: a traverse
\* that ran to the end with a visitor that always returns true has visited
\* every node reachable from the root through nodes that resolve.  An
\* unresolved node is never on the work list except as the root, and when the
\* root does not resolve traverse returns without calling the visitor.
C24_MissingNodePrunesOwnBranch ==
    /\ [](/\ (trav = "done" /\ stopAt = 0 /\ faults = 0) =>
                 \A i \in ReachableThroughResolvable : Visits(i) >= 1
          /\ ~RootResolves => (visited = <<>> /\ ~panicked)
          /\ \A k \in 1..Len(stack) :
                 ~stack[k].some => (k = 1 /\ Len(stack) = 1 /\ visited = <<>>))
    /\ [][(stack # <<>> /\ ~Top.some) =>
              (trav' = "done" /\ visited' = <<>> /\ UNCHANGED graphVars)]_vars

\* C24 witness: a pass over the scene whose node 0 lists 1, a dangling index
\* and 2 ran to the end and visited node 2 and its child
C24_Witness ==
    /\ trav = "done" /\ stopAt = 0 /\ faults = 0
    /\ RootResolves /\ RootIndex = 0
    /\ SceneNode(0).val.children = <<1, 5, 2>>
    /\ Visits(2) >= 1 /\ Visits(4) >= 1

\* a pass whose root did not resolve returned without a visit
C24_WitnessRoot ==
    /\ trav = "done" /\ pass = 1 /\ ~RootResolves /\ visited = <<>>

----------------------------------------------------------------------------
(* The order of the visits of one node's children *)

\* the position of index x in the children field of the node of visit k
ListedAt(k, x) ==
    CHOOSE p \in DOMAIN SceneNode(visited[k].index).val.children :
        SceneNode(visited[k].index).val.children[p] = x

\* visits j1 and j2 are of two children pushed by the same visit
SameParentVisit(j1, j2) ==
    j1 < j2 /\ visited[j1].via > 0 /\ visited[j1].via = visited[j2].via

\* C25 as stated: the children of every node are visited in the order in
\* which the node's children field lists them.
C25_ChildrenInListedOrder ==
    \A j2 \in 1..Len(visited) : \A j1 \in 1..(j2 - 1) :
        SameParentVisit(j1, j2) =>
            ListedAt(visited[j1].via, visited[j1].index)
                < ListedAt(visited[j2].via, visited[j2].index)

\* C25 amended: the children of every node are visited in the reverse of the
\* order in which the node's children field lists them: of two children of
\* one node, the one listed later is visited first.
C25_ChildrenInReverseListedOrder ==
    \A j2 \in 1..Len(visited) : \A j1 \in 1..(j2 - 1) :
        SameParentVisit(j1, j2) =>
            ListedAt(visited[j1].via, visited[j1].index)
                > ListedAt(visited[j2].via, visited[j2].index)

\* C25 witness: a pass over the tree scene ran to the end and visited the
\* children of node 0 and of node 1 last listed first
C25_Witness ==
    /\ trav = "done"
    /\ [k \in 1..Len(visited) |-> visited[k].index] = <<0, 2, 1, 4, 3>>

----------------------------------------------------------------------------
(* The shape of the walk *)

\* visit j is visit k or was pushed, through any number of visits, by visit k
RECURSIVE InSubtree(_, _)
InSubtree(j, k) ==
    IF j = 0 THEN FALSE
    ELSE j = k \/ InSubtree(visited[j].via, k)

\* C26: traverse is a depth-first pre-order walk.  The root is the first
\* visit and every other node is visited after the visit of the node that
\* lists it as a child; and the visits of a node's subtree follow the node's
\* visit without a gap, so that no sibling still waiting is visited before the
\* subtree is finished.
C26_DepthFirstPreOrder ==
    /\ \A k \in 1..Len(visited) :
           /\ visited[k].via < k
           /\ (visited[k].via = 0) <=> (k = 1)
           /\ visited[k].via > 0 =>
                  visited[k].index \in Range(SceneNode(visited[visited[k].via].index).val.children)
    /\ \A k \in 1..Len(visited) : \A j \in (k + 1)..Len(visited) :
           InSubtree(j, k) => \A m \in (k + 1)..(j - 1) : InSubtree(m, k)

\* C26 witness: a pass over the scene whose node 0 lists 1 and 2, node 1
\* lists 3 and node 2 lists 4 ran to the end, each child followed by its own
\* child before the other child of node 0
C26_Witness ==
    /\ trav = "done"
    /\ [k \in 1..Len(visited) |-> visited[k].index] = <<0, 2, 4, 1, 3>>
    /\ [k \in 1..Len(visited) |-> visited[k].via] = <<0, 1, 2, 1, 4>>

----------------------------------------------------------------------------
(* Creating the decoder of a scene.  The store of the scene definition     *)
(* names the profile; the decoder is then called on one mesh as above.     *)

Profiles == {"MeshPyramids", "Points", "PointClouds", "Building"}

\* ResourceDecoder::new: todo!() panics with "not yet implemented"
ResourceDecoder_new(profile) ==
    IF profile = "MeshPyramids" THEN Ok("MeshPyramid")
    ELSE Panic("not yet implemented")

\* SceneLayer::create_decoder
SceneLayer_create_decoder == ResourceDecoder_new(scene.def.store.profile)

ProfileScene(profile, geometry, texture) ==
    [def |-> [node_pages |-> NodePagesDef(2, 0),
              geometry_definitions |-> geometry,
              texture_set_definitions |-> texture,
              store |-> [profile |-> profile]],
     archive |-> DecodeArchive]

ProfileScenes ==
    {ProfileScene(p, g, t) : p \in Profiles, g \in DecodeGeometryTables,
                             t \in DecodeTextureTables}

InitProfile ==
    /\ scene \in ProfileScenes
    /\ build = "release"
    /\ InitThreadState
    /\ InitCallerState
    /\ \E d \in 0..MaxDefinition : mesh = [t \in Threads |-> MeshOf(d)]

\* the caller asks the scene layer for its decoder
CallCreateDecoder ==
    /\ ~panicked /\ last.q = "none"
    /\ last' = [q |-> "create_decoder", r |-> SceneLayer_create_decoder]
    /\ panicked' = SceneLayer_create_decoder.panic
    /\ UNCHANGED <<scene, build, graphVars, first, ops, travVars, thrVars>>

\* the caller holds a decoder
DecoderHeld == last.q = "create_decoder" /\ last.r.ok

NextProfile ==
    \/ CallCreateDecoder
    \/ \E c \in Compressions : DecoderHeld /\ TDecodeGeometry(MeshOwner, c)
    \/ \E c \in Compressions : DecoderHeld /\ TDecodeMaterial(MeshOwner, c)
    \/ DecoderHeld /\ GetLock(MeshOwner)
    \/ DecoderHeld /\ GetByName(MeshOwner)
    \/ \E fail \in BOOLEAN : DecoderHeld /\ GetRead(MeshOwner, fail)
    \/ DecoderHeld /\ GeomGunzip(MeshOwner)
    \/ DecoderHeld /\ MatStore(MeshOwner)

\* a decoder created for the scene's profile and called on one mesh
SpecProfile == InitProfile /\ [][NextProfile]_vars

\* no backend fetch was made and no cache holds anything
NothingFetchedOrCached ==
    /\ fetches = EmptyBag
    /\ cache = EmptyMap /\ nodes = EmptyMap
    /\ \A t \in Threads : ~mesh[t].geometry.cache.present /\ ~mesh[t].material.cache.present

\* C27: creating a decoder for a scene whose profile is points, point-clouds
\* or building fails at once with an invalid-request failure returned to the
\* caller: no decoder, no backend fetch, no cache change.  Only the
\* mesh-pyramid profile yields a decoder.
C27_UnsupportedProfileIsError ==
    (last.q = "create_decoder") =>
        IF scene.def.store.profile = "MeshPyramids" THEN last.r.ok
        ELSE /\ ~last.r.ok
             /\ NothingFetchedOrCached
             /\ ~last.r.panic /\ ~panicked

----------------------------------------------------------------------------
(* Fetches per call *)

\* the number of elements of a bag
RECURSIVE BagSize(_)
BagSizeFrom(b, k) == b[k] + BagSize([x \in DOMAIN b \ {k} |-> b[x]])
BagSize(b) == IF DOMAIN b = {} THEN 0 ELSE BagSizeFrom(b, CHOOSE k \in DOMAIN b : TRUE)

\* the locations of a call after its fetch was issued
PastFetch ==
    {"get_read", "page_gunzip", "page_parse", "page_insert", "page_ret",
     "geom_gunzip", "mat_store"}

\* the fetch of thread t fails in this step
FetchFails(t) ==
    /\ pc'[t] # pc[t]
    /\ \/ pc[t] = "get_byname" /\ call[t].uri \notin DOMAIN scene.archive
       \/ pc[t] = "get_read" /\ faults' # faults

\* C28: no operation retries.  The backend is asked at most once per call of
\* get_node_page, get_node, decode_geometry or decode_material; a call that
\* has issued its fetch issues no other before it returns; and the step in
\* which the fetch fails returns the failure to the caller.
C28_NoRetry ==
    /\ [](BagSize(fetches) <= calls)
    /\ [][\A t \in Threads :
            /\ pc[t] \in PastFetch => pc'[t] \in PastFetch \cup {"idle", "panicked"}
            /\ fetches' # fetches =>
                   /\ BagSize(fetches') = BagSize(fetches) + 1
                   /\ \E u \in Threads :
                          pc[u] = "get_byname" /\ pc'[u] \in {"get_read", "idle"}
            /\ FetchFails(t) =>
                   /\ pc'[t] = "idle"
                   /\ ~ret'[t].ok
                   /\ ret'[t].err \in {"Failed to find file in archive",
                                       "Failed to read file from archive"}]_vars

\* C28 witness: the only call made, a get_node_page, asked the archive once,
\* the read failed, and the call returned the failure
C28_Witness ==
    /\ calls = 1
    /\ \E t \in Threads :
           /\ call[t].op = "page" /\ pc[t] = "idle"
           /\ ret[t].err = "Failed to read file from archive"
           /\ fetches = (call[t].uri :> 1)

----------------------------------------------------------------------------
(* Selecting the backend from the text of an address.  An address is the   *)
(* sequence of its characters.                                             *)

\* str::starts_with and str::ends_with
starts_with(text, pat) ==
    Len(text) >= Len(pat) /\ SubSeq(text, 1, Len(pat)) = pat

ends_with(text, pat) ==
    Len(text) >= Len(pat) /\ SubSeq(text, Len(text) - Len(pat) + 1, Len(text)) = pat

\* ".slpk" and "http", the patterns from_uri tests
DotSlpk == <<".", "s", "l", "p", "k">>
Http == <<"h", "t", "t", "p">>

\* I3SFormat::from_uri on the text of the address
I3SFormat_from_text(text) ==
    I3SFormat_from_uri(Uri(ends_with(text, DotSlpk), starts_with(text, Http)))

\* how an address begins, what follows, and how it ends
AddressHeads ==
    { <<>>,
      Http \o <<":", "/", "/">>,
      Http \o <<"s", ":", "/", "/">>,
      Http \o <<"d">>,
      <<"h", "t", "t">>,
      <<"f", "t", "p", ":", "/", "/">>,
      <<"/">> }

AddressBodies == { <<>>, <<"a">>, <<"a">> \o DotSlpk \o <<"/", "b">> }

AddressTails ==
    { <<>>, DotSlpk, DotSlpk \o <<"/">>, <<".", "s", "l", "p">>,
      <<"s", "l", "p", "k">>, <<".", "z", "i", "p">> }

Addresses == {h \o b \o t : h \in AddressHeads, b \in AddressBodies, t \in AddressTails}

CallFormatFromUri ==
    /\ last.q = "none"
    /\ last' = [q |-> "format", uri |-> scene, r |-> I3SFormat_from_text(scene)]
    /\ UNCHANGED <<scene, build, graphVars, first, ops, panicked, travVars, thrVars>>

InitFormat == scene \in Addresses /\ build = "release" /\ InitCaller

NextFormat == CallFormatFromUri

\* the backend selection applied to an address
SpecFormat == InitFormat /\ [][NextFormat]_vars

\* the address ends with the archive extension
HasArchiveExtension(text) == ends_with(text, DotSlpk)

\* the address begins with the scheme of a web address: http: or https:
WebSchemes == { Http \o <<":">>, Http \o <<"s", ":">> }
BeginsWithWebScheme(text) == \E s \in WebSchemes : starts_with(text, s)

\* C29: from_uri selects the backend from the text of the address: an
\* address ending with .slpk selects the archive backend, another address
\* that begins with a web scheme selects the service backend, and every other
\* address yields the invalid-input error.
C29_BackendFromAddressText ==
    (last.q = "format") =>
        IF HasArchiveExtension(last.uri) THEN last.r = Ok("SLPK")
        ELSE IF BeginsWithWebScheme(last.uri) THEN last.r = Ok("REST")
        ELSE last.r = Err("Invalid URI")

----------------------------------------------------------------------------
(* get_node_page called by the caller itself *)

CallGetNodePage(p, f) ==
    /\ CallerReady
    /\ Returned("page", p, GetNodePage(World(f), p))
    /\ ops' = ops + 1
    /\ UNCHANGED <<scene, build, thrVars, travVars>>

NextPage == \E p \in 0..MaxIndex, f \in FailAts : CallGetNodePage(p, f)

\* one caller loading node pages of an open scene
SpecPage == InitGraph /\ [][NextPage]_vars

\* the failures of the byte accessor, of the decompression and of the parse,
\* as get_node_page words them
AccessorFailures == {"Failed to find file in archive", "Failed to read file from archive"}
DecompressionFailure == "Failed to decompress"
ParseFailure == "Could not parse Node Page"

\* what stops the load of page p when no read fails: "" when nothing does
PageDefect(p) ==
    IF NodePagePath(p) \notin DOMAIN scene.archive THEN "accessor"
    ELSE IF scene.archive[NodePagePath(p)].enc # "gzip" THEN "decompression"
    ELSE IF scene.archive[NodePagePath(p)].body.kind # "page" THEN "parse"
    ELSE ""

\* C30: get_node_page reports its three failure modes as distinct outcomes:
\* a call stopped by the byte accessor (entry not found, read failure), by the
\* decompression or by the parse returns the error of that mode and of no
\* other, and a call nothing stops returns the page.
C30_FailureModesDistinct ==
    /\ DecompressionFailure \notin AccessorFailures
    /\ ParseFailure \notin AccessorFailures \cup {DecompressionFailure}
    /\ (last.q = "page") =>
           /\ last.err \in AccessorFailures <=> (last.fault \/ PageDefect(last.n) = "accessor")
           /\ last.err = DecompressionFailure <=>
                  (~last.fault /\ PageDefect(last.n) = "decompression")
           /\ last.err = ParseFailure <=> (~last.fault /\ PageDefect(last.n) = "parse")
           /\ last.err = "" <=> (~last.fault /\ PageDefect(last.n) = "")
           /\ last.err = "" => last.r = ScenePage(last.n).val

\* C30 witness: get_node_page was called on a page whose entry is not a gzip
\* stream and returned the decompression failure
C30_Witness ==
    /\ last.q = "page" /\ ~last.fault
    /\ PageDefect(last.n) = "decompression"
    /\ last.err = DecompressionFailure

----------------------------------------------------------------------------
(* NodeArray::iter.  The iterator is [n, asked, yielded, done, fault]: its *)
(* current_index and, as observers of the enumeration under way, the       *)
(* indices it has asked NodeArray::get for, the nodes it has yielded,      *)
(* whether its last next returned None, and whether a transient read       *)
(* failure hit the enumeration.                                            *)

\* a current_index that skips an index after each node
NextIndexSkipping(current_index, r) == IF r.ok THEN current_index + 2 ELSE 0

\* NodeArrayIter::next: current_index after get returned r
NextIndex(current_index, r) == IF r.ok THEN current_index + 1 ELSE 0

\* NodeArray::iter
NodeArray_iter ==
    [q |-> "iter", n |-> 0, asked |-> <<>>, yielded |-> <<>>, done |-> FALSE, fault |-> FALSE]

\* the caller's iterator
Iter == IF last.q = "iter" THEN last ELSE NodeArray_iter

\* the enumeration under way: a next after None begins another one
AskedSoFar(it) == IF it.done THEN <<>> ELSE it.asked
YieldedSoFar(it) == IF it.done THEN <<>> ELSE it.yielded

\* NodeArrayIter::next, the result o of NodeArray::get in hand
IterStepped(it, o) ==
    [q |-> "iter",
     n |-> NextIndex(it.n, o.r),
     asked |-> Append(AskedSoFar(it), it.n),
     yielded |-> IF o.r.ok THEN Append(YieldedSoFar(it), o.r.val) ELSE YieldedSoFar(it),
     done |-> ~o.r.ok,
     fault |-> (~it.done /\ it.fault) \/ o.w.fired]

IterReturned(o) ==
    /\ Commit(o)
    /\ last' = IterStepped(Iter, o)

\* the caller calls next on its iterator
IterNext(f) ==
    /\ ~panicked /\ ops < MaxNext /\ trav = "idle"
    /\ IterReturned(NodeArrayGet(World(f), Iter.n))
    /\ ops' = ops + 1
    /\ UNCHANGED <<scene, build, first, thrVars, travVars>>

NextIter == \E f \in FailAts : IterNext(f)

\* one caller enumerating the nodes of an open scene
SpecIter == InitGraph /\ [][NextIter]_vars

\* C31: an enumeration asks for the indices 0, 1, 2, ... in ascending order,
\* one get and at most one backend fetch per next, and yields the node of
\* each index asked for until the first index that does not resolve: there
\* it stops, having asked for no greater index.  Without transient read
\* failures that index is the least index the scene does not resolve.
C31_EnumerationStopsAtFirstFailure ==
    /\ [](last.q = "iter" =>
            /\ last.asked = [i \in 1..Len(last.asked) |-> i - 1]
            /\ Indices(last.yielded) = [i \in 1..Len(last.yielded) |-> i - 1]
            /\ \A i \in 1..Len(last.yielded) : last.yielded[i] = SceneNode(i - 1).val
            /\ Len(last.asked) = Len(last.yielded) + (IF last.done THEN 1 ELSE 0)
            /\ (last.done /\ ~last.fault) => ~Resolves(Len(last.yielded))
            /\ \A i \in 1..Len(last.yielded) : Resolves(i - 1))
    /\ [][BagSize(fetches') <= BagSize(fetches) + 1]_vars

\* C31 witness: an enumeration yielded nodes 0, 1 and 2 and stopped at index
\* 3, whose page does not load
C31_Witness ==
    /\ last.q = "iter" /\ last.done /\ ~last.fault
    /\ Indices(last.yielded) = <<0, 1, 2>>
    /\ last.asked = <<0, 1, 2, 3>>

----------------------------------------------------------------------------
(* The size of the node cache *)

\* C32: len() is the number of distinct indices in the node cache.  No
\* operation removes a cached node, so len() never decreases; a get or root
\* call grows it by exactly one when it resolves an index that was not
\* cached, and leaves it unchanged when the index was cached or does not
\* resolve.
C32_LenCountsCachedNodes ==
    [][/\ \A i \in DOMAIN nodes : i \in DOMAIN nodes' /\ nodes'[i] = nodes[i]
       /\ NodeArrayLen(World(0))' >= NodeArrayLen(World(0))
       /\ NodeArrayLen(World(0))' = Cardinality(DOMAIN nodes')
       /\ (last'.q \in {"get", "root"} /\ ops' # ops) =>
              NodeArrayLen(World(0))' =
                  NodeArrayLen(World(0))
                      + (IF last'.r # <<>> /\ last'.n \notin DOMAIN nodes THEN 1 ELSE 0)]_vars

\* C32 witness: a get resolved an index that was not cached while two other
\* nodes were, and len() is three
C32_Witness ==
    /\ last.q = "get" /\ last.r # <<>>
    /\ last.len = 2
    /\ NodeArrayLen(World(0)) = 3

----------------------------------------------------------------------------
(* The variant a decode call returns *)

\* the decoded payload of the entry the call of thread t asked for: the
\* gunzipped bytes of a geometry entry, the bytes of a texture entry
RequestedPayload(t) ==
    IF call[t].op = "geom" THEN GzDecode(scene.archive[call[t].uri]).val
    ELSE scene.archive[call[t].uri]

\* C33: the buffer a decode_geometry or decode_material call returns is the
\* decoded payload of the compression variant the call asked for, whatever
\* decode calls were made on the component before, a call for the other
\* variant included.
C33_ReturnsRequestedVariant ==
    \A t \in Threads :
        Decoded(t) =>
            /\ call[t].uri \in DOMAIN scene.archive
            /\ ret[t].val = RequestedPayload(t)

----------------------------------------------------------------------------
(* The level of a deep node *)

\* the visit n pushes above visit k (k itself for n = 0), 0 when the chain of
\* pushes from the root's visit to k is shorter than n
RECURSIVE ViaUp(_, _)
ViaUp(k, n) ==
    IF k = 0 \/ n = 0 THEN k
    ELSE IF n = 1 THEN visited[k].via
    ELSE ViaUp(ViaUp(k, n \div 2), n - n \div 2)

\* visit k is at depth d: d pushes above it is the visit of the root
AtDepth(k, d) == ViaUp(k, d) # 0 /\ visited[ViaUp(k, d)].via = 0

\* C34: the level passed to the visitor is the depth of the node at any
\* depth: the 8-bit level counter neither overflows (ending the walk) nor
\* wraps in a tree deeper than 255 levels.
C34_LevelIsDepthAtAnyDepth ==
    /\ trav # "panicked"
    /\ visited # <<>> => AtDepth(Len(visited), visited[Len(visited)].level)
----------------------------------------------------------------------------
(* traverse over scenes whose children lists close a cycle.  The record of *)
(* the visitor's calls is no state of the program: this specification      *)
(* leaves it empty, so that a walk that goes round is a finite cycle of    *)
(* program states.                                                         *)

\* node 1 lists itself
SelfLoopShape == << Node(0, NONE, <<1>>), Node(1, 0, <<1>>) >>

\* node 2 lists the root, its grandparent
AncestorLoopShape == << Node(0, NONE, <<1>>), Node(1, 0, <<2>>), Node(2, 1, <<0>>) >>

LoopScenes ==
    {MkScene(sh, npp, "none") : sh \in {SelfLoopShape, AncestorLoopShape, TreeShape},
                                npp \in NppChoices}
    \cup {DanglingRootScene(npp) : npp \in NppChoices}

InitLoop ==
    /\ scene \in LoopScenes
    /\ build \in {"debug", "release"}
    /\ InitCaller

\* the loop body with a visitor that returns true at every call
LoopVisit(f) ==
    /\ trav = "running" /\ stack # <<>> /\ Top.some
    /\ Continue(TRUE)
    /\ \E c \in {GetChildren(World(f), Top.node)} : TraverseBody(c)
    /\ UNCHANGED <<scene, build, thrVars, first, last, ops, pass, stopAt, visited>>

\* a step of the loop, every read of the archive succeeding
LoopStep == TraverseSkip \/ LoopVisit(0)

NextLoop ==
    \/ TraverseStart(0, 0)
    \/ LoopStep

\* traverse is a loop of one thread: once called it keeps taking steps
SpecLoop == InitLoop /\ [][NextLoop]_vars /\ WF_vars(LoopStep)

\* C35: with a visitor that always returns true, traverse returns on every
\* finite scene, also when a children list names an ancestor of its node or
\* the node itself.
C35_TraverseReturns == (trav = "running") ~> (trav = "done")

----------------------------------------------------------------------------
(* The service backend's requests.  An address is the sequence of its      *)
(* pieces, "/" among them; format! puts pieces one after the other.  The   *)
(* environment (held in scene) is the address given to connect, the        *)
(* documents the server holds by address, and how the server answers a     *)
(* request for an address it holds nothing at.                             *)

Slash == <<"/">>

\* str::trim_end_matches('/')
RECURSIVE trim_end_matches_slash(_)
trim_end_matches_slash(text) ==
    IF ends_with(text, Slash) THEN trim_end_matches_slash(SubSeq(text, 1, Len(text) - 1))
    ELSE text

\* the base_url field Service::connect stores for the address given
Service_base_url(given) ==
    IF ends_with(given, <<"SceneServer">>) THEN given
    ELSE trim_end_matches_slash(given) \o Slash \o <<"SceneServer">>

\* "layers/0/nodepages/{index}"
NodePagesPath(index) == <<"layers", "/", "0", "/", "nodepages", "/", ToString(index)>>

\* "layers/0/nodes/{resource}/geometries/0"
GeometryPath(resource) ==
    <<"layers", "/", "0", "/", "nodes", "/", ToString(resource), "/", "geometries", "/", "0">>

\* client.get(&url).send() and the status test: what the server answers
ServerAnswer(env, url) ==
    IF url \in DOMAIN env.served THEN Ok(env.served[url])
    ELSE IF env.miss = "status" THEN Err("Request failed with status code: 404")
    ELSE Ok([kind |-> "error", nodes |-> <<>>])

\* Service::get: the address sent and the bytes or the error returned
Service_get(env, uri) ==
    [url |-> Service_base_url(env.given) \o Slash \o uri,
     r   |-> ServerAnswer(env, Service_base_url(env.given) \o Slash \o uri)]

\* get_node_page after the fetch: from_slice, the error member, from_value
ServicePageOf(data) ==
    IF ~data.ok THEN Err("Failed to fetch data")
    ELSE IF data.val.kind = "junk" THEN Err("JSON parse error")
    ELSE IF data.val.kind = "error" THEN Err("error")
    ELSE IF data.val.kind # "page" THEN Err("Unable to parse NodePage")
    ELSE Ok(data.val.nodes)

\* Service::get_node_page: the address sent (none when the page is cached),
\* the result and the page cache it leaves
Service_get_node_page(env, pages, index) ==
    IF index \in DOMAIN pages
    THEN [sent |-> <<>>, r |-> Ok(pages[index]), pages |-> pages]
    ELSE [sent |-> << Service_get(env, Service_base_url(env.given) \o Slash \o NodePagesPath(index)).url >>,
          r |-> ServicePageOf(Service_get(env, Service_base_url(env.given) \o Slash \o NodePagesPath(index)).r),
          pages |-> IF ServicePageOf(Service_get(env, Service_base_url(env.given) \o Slash \o NodePagesPath(index)).r).ok
                    THEN InsertPage(pages, index, ServicePageOf(Service_get(env, Service_base_url(env.given) \o Slash \o NodePagesPath(index)).r).val)
                    ELSE pages]

ServerBase == <<"https://host", "/", "rest", "/", "SceneServer">>

\* what the server of the tree scene holds: the pages and a geometry
ServerDocuments ==
    [url \in {ServerBase \o Slash \o NodePagesPath(p) : p \in 0..2}
             \cup {ServerBase \o Slash \o GeometryPath(0)} |->
        IF url = ServerBase \o Slash \o GeometryPath(0) THEN [kind |-> "geometry", nodes |-> <<>>]
        ELSE [kind |-> "page",
              nodes |-> PageNodes(TreeShape, 2,
                                  CHOOSE p \in 0..2 : url = ServerBase \o Slash \o NodePagesPath(p))]]

GivenAddresses ==
    { ServerBase,
      <<"https://host", "/", "rest">>,
      <<"https://host", "/", "rest", "/">> }

ServiceEnvs ==
    { [given |-> g, served |-> ServerDocuments, miss |-> m] :
          g \in GivenAddresses, m \in {"status", "errorbody"} }

ServiceReturned(q, n, o) ==
    /\ last' = [q |-> q, n |-> n, sent |-> o.sent, r |-> o.r]
    /\ cache' = o.pages
    /\ fetches' = IF o.sent = <<>> THEN fetches ELSE BagAdd(fetches, o.sent[1])
    /\ failed' = IF o.sent # <<>> /\ ~o.r.ok THEN BagAdd(failed, o.sent[1]) ELSE failed
    /\ ops' = ops + 1
    /\ UNCHANGED <<scene, build, nodes, faults, first, panicked, travVars, thrVars>>

CallServiceGetNodePage(index) ==
    /\ CallerReady
    /\ ServiceReturned("service_page", index, Service_get_node_page(scene, cache, index))

CallServiceGet(uri) ==
    /\ CallerReady
    /\ ServiceReturned("service_get", uri,
                       [sent |-> << Service_get(scene, uri).url >>,
                        r |-> Service_get(scene, uri).r, pages |-> cache])

InitService == scene \in ServiceEnvs /\ build = "release" /\ InitCaller

NextService ==
    \/ \E index \in 0..2 : CallServiceGetNodePage(index)
    \/ \E uri \in {NodePagesPath(0), NodePagesPath(1), GeometryPath(0)} : CallServiceGet(uri)

\* one caller of a connected service
SpecService == InitService /\ [][NextService]_vars

\* the number of places of the address at which the text occurs
Occurrences(text, url) ==
    Cardinality({k \in 1..Len(url) : starts_with(SubSeq(url, k, Len(url)), text)})

\* C36: the service backend requests page i at the base URL followed once by
\* /layers/0/nodepages/i: the base URL occurs exactly once in the address
\* Service::get sends.
C36_BaseUrlOnceInPageAddress ==
    (last.q = "service_page" /\ last.sent # <<>>) =>
        /\ Occurrences(Service_base_url(scene.given), last.sent[1]) = 1
        /\ last.sent[1] = Service_base_url(scene.given) \o Slash \o NodePagesPath(last.n)

----------------------------------------------------------------------------
(* One caller of a scene some of whose pages and payloads fail to load:    *)
(* it loads pages, resolves nodes and decodes its mesh, one call at a time. *)

\* the scene of the threads with the given defect of page 1, its compressed
\* geometry entry holding bytes that are not gzip
FailScene(defect) ==
    [def |-> ConcScene(defect).def,
     archive |-> [u \in DOMAIN ConcScene(defect).archive |->
                     IF u = "nodes/0/geometries/1.bin" THEN TexBlob
                     ELSE ConcScene(defect).archive[u]]]

FailScenes == {FailScene(d) : d \in Defects}

\* the pages and the indices the caller asks for: page 1 is the defective
\* one, no page 3 exists, index 5 lies past the end of page 2
FailPages == {0, 1, 3}
FailIndices == {1, 3, 5}

\* the page and node calls the caller makes besides walking and decoding
MaxFrameOps == 2

\* no call of a decoder is under way
NoCallUnderWay == \A t \in Threads : pc[t] = "idle"

InitFail == scene \in FailScenes /\ build = "release" /\ InitCaller

NextFail ==
    \/ \E p \in FailPages, f \in FailAts :
           NoCallUnderWay /\ ops < MaxFrameOps /\ CallGetNodePage(p, f)
    \/ \E i \in FailIndices, f \in FailAts :
           NoCallUnderWay /\ ops < MaxFrameOps /\ CallGet(i, f)
    \/ \E c \in Compressions : TDecodeGeometry(MeshOwner, c)
    \/ \E c \in Compressions : TDecodeMaterial(MeshOwner, c)
    \/ GetLock(MeshOwner)
    \/ GetByName(MeshOwner)
    \/ \E fail \in BOOLEAN : GetRead(MeshOwner, fail)
    \/ GeomGunzip(MeshOwner)
    \/ MatStore(MeshOwner)

SpecFail == InitFail /\ [][NextFail]_vars

\* the step is a call of get_node_page / of NodeArray::get by the caller
PageCallStep == ops' # ops /\ last'.q = "page"
GetCallStep == ops' # ops /\ last'.q = "get"

\* the step is the one in which a decoder call of thread t returns an error
DecodeFailsStep(t) ==
    /\ call'[t].op \in {"geom", "mat"}
    /\ calls' # calls \/ pc'[t] # pc[t]
    /\ pc'[t] = "idle"
    /\ ~ret'[t].ok

\* the step is the one in which thread t calls a decoder whose slot is empty
\* and whose URI the scene gives
DecodeCallStep(t) ==
    /\ calls' # calls
    /\ call'[t].op \in {"geom", "mat"}
    /\ call'[t].uri # ""
    /\ ~SlotOf(t)'.present

\* C37: a failed operation leaves the caches as they were: a get_node_page
\* that fails adds no entry to the page cache, a NodeArray::get that fails adds
\* no entry to the node cache, a decode_geometry or decode_material that fails
\* leaves the slot of the mesh component empty; and no failure is remembered:
\* a later call for a key that is not cached asks the backend again.
C37_FailureLeavesCachesUnchanged ==
    [][/\ (PageCallStep /\ last'.err # "") => (cache' = cache /\ nodes' = nodes)
       /\ (GetCallStep /\ last'.r = <<>>) => nodes' = nodes
       /\ \A t \in Threads :
              DecodeFailsStep(t) => (mesh' = mesh /\ ~SlotOf(t)'.present)
       /\ (PageCallStep /\ NodePageKey(last'.n) \notin DOMAIN cache) =>
              BagCount(fetches', NodePagePath(last'.n))
                  = BagCount(fetches, NodePagePath(last'.n)) + 1
       /\ (GetCallStep /\ last'.n \notin DOMAIN nodes
               /\ NodePageKey(get_node_page_index(last'.n, scene.def.node_pages.nodes_per_page))
                      \notin DOMAIN cache) =>
              BagCount(fetches', PageOfIndex(last'.n)) = BagCount(fetches, PageOfIndex(last'.n)) + 1
       /\ \A t \in Threads :
              /\ DecodeCallStep(t) => pc'[t] = "get_lock"
              /\ (pc[t] = "get_byname" /\ pc'[t] # pc[t]) =>
                     BagCount(fetches', call[t].uri) = BagCount(fetches, call[t].uri) + 1
      ]_vars

\* C37 witness: the load of the defective page failed twice, the second time
\* asking the backend again, and so did the decoding of the geometry whose
\* bytes are not gzip; neither cache holds anything of them
C37_Witness ==
    /\ last.q = "page" /\ last.n = 1 /\ last.err # ""
    /\ BagCount(fetches, NodePagePath(1)) = 2
    /\ NodePageKey(1) \notin DOMAIN cache
    /\ call[MeshOwner].op = "geom" /\ pc[MeshOwner] = "idle" /\ ~ret[MeshOwner].ok
    /\ BagCount(fetches, "nodes/0/geometries/1.bin") = 2
    /\ ~mesh[MeshOwner].geometry.cache.present

----------------------------------------------------------------------------
(* One caller using everything that reads the caches: it resolves and      *)
(* navigates, walks the scene and decodes its mesh.                        *)

FrameIndices == {0, 3}
FrameStops == {0, 2}

\* the caller has made its walks of the scene
Walked == pass = MaxPasses /\ trav \in {"done", "stopped"}

NextFrame ==
    \/ \E i \in FrameIndices, f \in FailAts : ops < MaxFrameOps /\ CallGet(i, f)
    \/ \E n \in FrameIndices, f \in FailAts : ops < MaxFrameOps /\ CallGetChildren(n, f)
    \/ \E s \in FrameStops, f \in FailAts : TraverseStart(s, f)
    \/ TraverseSkip
    \/ TraverseStop
    \/ \E f \in FailAts : TraverseVisit(f)
    \/ \E c \in Compressions : Walked /\ TDecodeGeometry(MeshOwner, c)
    \/ \E c \in Compressions : Walked /\ TDecodeMaterial(MeshOwner, c)
    \/ GetLock(MeshOwner)
    \/ GetByName(MeshOwner)
    \/ \E fail \in BOOLEAN : GetRead(MeshOwner, fail)
    \/ GeomGunzip(MeshOwner)
    \/ MatStore(MeshOwner)

\* resolve and navigate, then walk, then decode, one call at a time
SpecFrame == InitFail /\ [][NextFrame]_vars

\* C38: each entry of the node cache under key k holds the node at offset
\* k % nodes_per_page of page k / nodes_per_page of the scene, each entry of
\* the page cache holds the parsed page of its index; an entry once inserted
\* is neither removed nor changed by a later resolve, navigation, traverse or
\* decode step, and the scene definition is never modified.
C38_CacheEntriesAreTheSceneAndStay ==
    /\ [](/\ \A k \in DOMAIN nodes : SceneNode(k).ok /\ nodes[k] = SceneNode(k).val
          /\ \A p \in 0..MaxIndex :
                 NodePageKey(p) \in DOMAIN cache =>
                     ScenePage(p).ok /\ cache[NodePageKey(p)] = ScenePage(p).val
          /\ DOMAIN cache \subseteq {NodePageKey(p) : p \in 0..MaxIndex})
    /\ [][/\ \A k \in DOMAIN nodes : k \in DOMAIN nodes' /\ nodes'[k] = nodes[k]
          /\ \A key \in DOMAIN cache : key \in DOMAIN cache' /\ cache'[key] = cache[key]
          /\ scene'.def = scene.def]_vars

\* C38 witness: with pages and nodes cached by earlier calls, a walk of the
\* scene has ended and a decoder has filled its slot
C38_Witness ==
    /\ trav = "done"
    /\ Len(visited) >= 5
    /\ ops = MaxFrameOps
    /\ Cardinality(DOMAIN nodes) >= 5
    /\ Cardinality(DOMAIN cache) = 3
    /\ mesh[MeshOwner].geometry.cache.present

----------------------------------------------------------------------------
(* Threads calling get_node_page, get_node and get on the shared scene,    *)
(* fairly scheduled.                                                       *)

\* a step of the call thread t is in
Run(t) ==
    \/ PageCheck(t)
    \/ GetByName(t)
    \/ \E fail \in BOOLEAN : GetRead(t, fail)
    \/ PageGunzip(t)
    \/ PageParse(t)
    \/ PageInsert(t)
    \/ PageRet(t)

\* the threads ask for an entry the archive lacks, for page 1, which is
\* defective in one of the scenes, and for node 3, a node of that page
NextShared ==
    \E t \in Threads :
        \/ TGet(t, "nodepages/7.json.gz")
        \/ TGetNodePage(t, 1)
        \/ TGetNode(t, 3)
        \/ GetLock(t)
        \/ Run(t)

\* a thread that can take a step of its call eventually takes one, and a
\* thread waiting for the archive lock gets it if it is free again and again
SpecShared ==
    /\ InitConc
    /\ [][NextShared]_vars
    /\ \A t \in Threads : WF_vars(Run(t)) /\ SF_vars(GetLock(t))

\* the locations at which a call reads or writes the page cache
AtPageCache == {"page_check", "page_insert", "page_ret"}

\* thread t is inside a call
InCall(t) == pc[t] \notin {"idle", "panicked"}

\* C39: threads calling get_node_page, get_node and get on one shared
\* archive-backed scene never deadlock: a thread at the page cache does not
\* hold the archive lock, a thread waiting for the archive lock holds no lock,
\* while a call is under way some thread can take a step, and every call
\* eventually returns a page, a node, bytes or an error.
C39_NoDeadlockEveryCallReturns ==
    /\ [](/\ \A t \in Threads :
                /\ pc[t] \in AtPageCache => t \notin holders
                /\ pc[t] = "get_lock" => t \notin holders
                /\ pc[t] # "panicked"
          /\ (\E t \in Threads : InCall(t)) =>
                 \E t \in Threads : ENABLED (GetLock(t) \/ Run(t)))
    /\ \A t \in Threads : InCall(t) ~> (pc[t] = "idle" /\ (ret[t].ok \/ ret[t].err # ""))

\* C39 witness: two threads asked for page 1 and for a node of it at the same
\* time, both found it uncached and went through the archive lock one after
\* the other, and both have returned what they asked for
C39_Witness ==
    /\ calls = MaxCalls
    /\ \A t \in Threads : pc[t] = "idle" /\ ret[t].ok
    /\ \E t, u \in Threads : call[t].op = "page" /\ call[u].op = "node"
    /\ BagCount(fetches, NodePagePath(1)) = 2

----------------------------------------------------------------------------
(* Decompression of a geometry payload *)

\* the payload of the bytes a backend delivered: their gunzipped content when
\* they are still a gzip stream, the bytes themselves when the transport has
\* already decompressed them
PayloadOf(blob) == IF blob.enc = "gzip" THEN Ok(blob.body) ELSE Ok(blob)

\* the first decoder call of thread t was a decode_geometry and the backend
\* delivered the bytes of its entry
GeometryDelivered(t) ==
    /\ calls = 1 /\ call[t].op = "geom" /\ pc[t] = "idle"
    /\ call[t].uri \in DOMAIN scene.archive
    /\ faults = 0

\* C40: decode_geometry gunzips the bytes fetched exactly when they are
\* delivered still compressed: bytes the transport delivered decompressed are
\* stored and returned as fetched, and no payload is gunzipped twice.
C40_GunzipExactlyWhenCompressed ==
    \A t \in Threads :
        GeometryDelivered(t) =>
            /\ ret[t] = PayloadOf(scene.archive[call[t].uri])
            /\ mesh[t].geometry.cache = [present |-> TRUE, data |-> ret[t].val]

=============================================================================
